---------------------------- MODULE Spec2Model ----------------------------
(***************************************************************************)
(* Model of the accounting chat back end: the WhatsApp identity/OTP gate   *)
(* (app/services/wa_gateway.py), the dialogue engine                       *)
(* (app/services/agent_logic.py), the Spanish period parser                *)
(* (app/services/periodo_parser.py), the customer resolve-or-create query  *)
(* (app/db/queries.py) and the two dedupe gates.                           *)
(*                                                                         *)
(* Texts are sequences of one-character strings, so that the regular       *)
(* expressions and substring tests of the code are computed character by   *)
(* character.  A message is a sequence of words of the vocabulary joined by *)
(* single blanks.                                                          *)
(***************************************************************************)
EXTENDS Integers, Sequences, FiniteSets, TLC

\* Optional values: None is the absent value, Some(x) a present one.
None == << >>
Some(x) == <<x>>
Get(o) == o[1]

(***************************************************************************)
(* Bounds of the model.                                                    *)
(***************************************************************************)
MaxMsgLen == 2
MaxOtpEvents == 3
NumValidators == 2
NumDeliveries == 3
NumTurns == 2
NumCallers == 2
MaxClientes == 3

(***************************************************************************)
(* Characters and words.                                                   *)
(***************************************************************************)
DigitChars == {"0", "1", "2", "3", "4", "5", "6", "7", "8", "9"}

LowerChars ==
  {"a", "b", "c", "d", "e", "f", "g", "h", "i", "j", "k", "l", "m", "n", "o",
   "p", "q", "r", "s", "t", "u", "v", "w", "x", "y", "z"}

UpperChars == {"I", "V", "A", "D"}

\* str.lower() on the characters the vocabulary uses
LowerOf(c) ==
  CASE c = "I" -> "i"
    [] c = "V" -> "v"
    [] c = "A" -> "a"
    [] c = "D" -> "d"
    [] OTHER -> c

ToLower(t) == [i \in 1..Len(t) |-> LowerOf(t[i])]

IsDigit(c) == c \in DigitChars

\* \w of the re module
IsWordChar(c) == c \in DigitChars \cup LowerChars \cup UpperChars \cup {"_"}

\* \s of the re module
IsSpace(c) == c = " "

\* The spelling of every word of the vocabulary.
Spelling ==
  [ iva      |-> <<"i", "v", "a">>,
    IVA      |-> <<"I", "V", "A">>,
    ventas   |-> <<"v", "e", "n", "t", "a", "s">>,
    vence    |-> <<"v", "e", "n", "c", "e">>,
    dic      |-> <<"d", "i", "c">>,
    Dic      |-> <<"D", "i", "c">>,
    sept     |-> <<"s", "e", "p", "t">>,
    que      |-> <<"q", "u", "e">>,
    viene    |-> <<"v", "i", "e", "n", "e">>,
    monotributo |-> <<"m", "o", "n", "o", "t", "r", "i", "b", "u", "t", "o">>,
    compras  |-> <<"c", "o", "m", "p", "r", "a", "s">>,
    balance  |-> <<"b", "a", "l", "a", "n", "c", "e">>,
    ddjj     |-> <<"d", "d", "j", "j">>,
    hola     |-> <<"h", "o", "l", "a">>,
    mayo     |-> <<"m", "a", "y", "o">>,
    de       |-> <<"d", "e">>,
    y2025    |-> <<"2", "0", "2", "5">>,
    p202512  |-> <<"2", "0", "2", "5", "-", "1", "2">>,
    cuit     |-> <<"c", "u", "i", "t">>,
    es       |-> <<"e", "s">>,
    cuitSep  |-> <<"2", "0", "-", "1", "2", "3", "4", "5", "6", "7", "8", "-", "9">>,
    cuitRaw  |-> <<"2", "0", "1", "2", "3", "4", "5", "6", "7", "8", "9">>,
    mail     |-> <<"a", "@", "b", ".", "c">>,
    Mail     |-> <<"A", "@", "b", ".", "c">>,
    mail2    |-> <<"v", "@", "b", ".", "c">>,
    code1    |-> <<"1", "2", "3", "4", "5", "6">>,
    code2    |-> <<"6", "5", "4", "3", "2", "1">>,
    este     |-> <<"e", "s", "t", "e">>,
    mes      |-> <<"m", "e", "s">>,
    pasado   |-> <<"p", "a", "s", "a", "d", "o">> ]

RECURSIVE Join(_)
\* the words of ws separated by single blanks
Join(ws) ==
  IF ws = << >> THEN << >>
  ELSE IF Len(ws) = 1 THEN Spelling[ws[1]]
  ELSE Spelling[ws[1]] \o <<" ">> \o Join(Tail(ws))

WordSeqs(W, n) == UNION {[1..k -> W] : k \in 0..n}

(***************************************************************************)
(* Primitives of regular-expression matching on a text t.  Positions run   *)
(* from 1 to Len(t)+1, the last one being the end of the text.             *)
(***************************************************************************)
WordAt(t, i) == i >= 1 /\ i <= Len(t) /\ IsWordChar(t[i])

\* \b just before position i
Boundary(t, i) == WordAt(t, i - 1) # WordAt(t, i)

StartsAt(t, i, pat) ==
  /\ i >= 1
  /\ i + Len(pat) - 1 <= Len(t)
  /\ \A k \in 1..Len(pat) : t[i + k - 1] = pat[k]

\* pat in t
Contains(t, pat) == \E i \in 1..(Len(t) + 1) : StartsAt(t, i, pat)

\* \d{n} at position i
DigitsAt(t, i, n) ==
  /\ i >= 1
  /\ i + n - 1 <= Len(t)
  /\ \A k \in 0..(n - 1) : IsDigit(t[i + k])

Min(S) == CHOOSE x \in S : \A y \in S : x <= y

\* the position after the blanks that start at position i (\s*, greedy)
SkipSpaces(t, i) ==
  Min({k \in i..(Len(t) + 1) : k = Len(t) + 1 \/ ~IsSpace(t[k])})

\* the position after the non-blank run that starts at position i ([^\s]+, greedy)
SkipNonSpaces(t, i) ==
  Min({k \in i..(Len(t) + 1) : k = Len(t) + 1 \/ IsSpace(t[k])})

Strip(t) ==
  LET first == SkipSpaces(t, 1)
      lasts == {k \in 1..Len(t) : ~IsSpace(t[k])}
  IN IF lasts = {} THEN << >>
     ELSE SubSeq(t, first, CHOOSE k \in lasts : \A j \in lasts : j <= k)

DigitValue(c) ==
  CASE c = "0" -> 0 [] c = "1" -> 1 [] c = "2" -> 2 [] c = "3" -> 3
    [] c = "4" -> 4 [] c = "5" -> 5 [] c = "6" -> 6 [] c = "7" -> 7
    [] c = "8" -> 8 [] c = "9" -> 9

DigitChar(n) ==
  CASE n = 0 -> "0" [] n = 1 -> "1" [] n = 2 -> "2" [] n = 3 -> "3"
    [] n = 4 -> "4" [] n = 5 -> "5" [] n = 6 -> "6" [] n = 7 -> "7"
    [] n = 8 -> "8" [] n = 9 -> "9"

RECURSIVE ToInt(_)
\* int(s) of a digit string
ToInt(s) ==
  IF s = << >> THEN 0
  ELSE 10 * ToInt(SubSeq(s, 1, Len(s) - 1)) + DigitValue(s[Len(s)])

RECURSIVE ToDigits(_)
\* str(n) of a natural number
ToDigits(n) ==
  IF n < 10 THEN <<DigitChar(n)>>
  ELSE ToDigits(n \div 10) \o <<DigitChar(n % 10)>>

RECURSIVE Zeros(_)
Zeros(k) == IF k <= 0 THEN << >> ELSE <<"0">> \o Zeros(k - 1)

\* f"{n:0wd}"
Pad(n, w) == LET d == ToDigits(n) IN Zeros(w - Len(d)) \o d


(***************************************************************************)
(* app/services/periodo_parser.py                                          *)
(***************************************************************************)
MESES ==
  { <<<<"e", "n", "e">>, 1>>,
    <<<<"e", "n", "e", "r", "o">>, 1>>,
    <<<<"f", "e", "b">>, 2>>,
    <<<<"f", "e", "b", "r", "e", "r", "o">>, 2>>,
    <<<<"m", "a", "r">>, 3>>,
    <<<<"m", "a", "r", "z", "o">>, 3>>,
    <<<<"a", "b", "r">>, 4>>,
    <<<<"a", "b", "r", "i", "l">>, 4>>,
    <<<<"m", "a", "y">>, 5>>,
    <<<<"m", "a", "y", "o">>, 5>>,
    <<<<"j", "u", "n">>, 6>>,
    <<<<"j", "u", "n", "i", "o">>, 6>>,
    <<<<"j", "u", "l">>, 7>>,
    <<<<"j", "u", "l", "i", "o">>, 7>>,
    <<<<"a", "g", "o">>, 8>>,
    <<<<"a", "g", "o", "s", "t", "o">>, 8>>,
    <<<<"s", "e", "p">>, 9>>,
    <<<<"s", "e", "p", "t">>, 9>>,
    <<<<"s", "e", "p", "t", "i", "e", "m", "b", "r", "e">>, 9>>,
    <<<<"o", "c", "t">>, 10>>,
    <<<<"o", "c", "t", "u", "b", "r", "e">>, 10>>,
    <<<<"n", "o", "v">>, 11>>,
    <<<<"n", "o", "v", "i", "e", "m", "b", "r", "e">>, 11>>,
    <<<<"d", "i", "c">>, 12>>,
    <<<<"d", "i", "c", "i", "e", "m", "b", "r", "e">>, 12>> }

\* MESES.get(key)
MESES_get(key) ==
  IF \E e \in MESES : e[1] = key
  THEN Some((CHOOSE e \in MESES : e[1] = key)[2])
  ELSE None

\* The alternation of the month regular expressions: each branch is a stem
\* followed by optional groups, ene(?:ro)?, ..., sep(?:t)?(?:iembre)?, ...
MonthAlternation ==
  << <<<<"e", "n", "e">>, <<<<"r", "o">>>>>>,
     <<<<"f", "e", "b">>, <<<<"r", "e", "r", "o">>>>>>,
     <<<<"m", "a", "r">>, <<<<"z", "o">>>>>>,
     <<<<"a", "b", "r">>, <<<<"i", "l">>>>>>,
     <<<<"m", "a", "y">>, <<<<"o">>>>>>,
     <<<<"j", "u", "n">>, <<<<"i", "o">>>>>>,
     <<<<"j", "u", "l">>, <<<<"i", "o">>>>>>,
     <<<<"a", "g", "o">>, <<<<"s", "t", "o">>>>>>,
     <<<<"s", "e", "p">>, <<<<"t">>, <<"i", "e", "m", "b", "r", "e">>>>>>,
     <<<<"o", "c", "t">>, <<<<"u", "b", "r", "e">>>>>>,
     <<<<"n", "o", "v">>, <<<<"i", "e", "m", "b", "r", "e">>>>>>,
     <<<<"d", "i", "c">>, <<<<"i", "e", "m", "b", "r", "e">>>>>> >>

RECURSIVE Expand(_, _)
\* the strings of a stem followed by optional groups
Expand(prefix, opts) ==
  IF opts = << >> THEN {prefix}
  ELSE Expand(prefix, Tail(opts)) \cup Expand(prefix \o Head(opts), Tail(opts))

MonthWords ==
  UNION {Expand(MonthAlternation[k][1], MonthAlternation[k][2]) :
           k \in 1..Len(MonthAlternation)}

\* \b(month)\b at position i: the month word matched there, or None.  Two
\* month words that both end at a word boundary from the same position are
\* the same word.
MonthAt(t, i) ==
  LET hits == {w \in MonthWords :
                 /\ Boundary(t, i)
                 /\ StartsAt(t, i, w)
                 /\ Boundary(t, i + Len(w))}
  IN IF hits = {} THEN None ELSE Some(CHOOSE w \in hits : TRUE)

\* (20\d{2})\b at position i
YearAt(t, i) ==
  /\ StartsAt(t, i, <<"2", "0">>)
  /\ DigitsAt(t, i + 2, 2)
  /\ Boundary(t, i + 4)

\* \s+ from position i: the position after the blanks, or 0 when there is none
Spaces1(t, i) ==
  IF i <= Len(t) /\ IsSpace(t[i]) THEN SkipSpaces(t, i) ELSE 0

\* (?:\s+de)?\s+(20\d{2})\b from position j: the position of the year, or 0
YearAfterMonth(t, j) ==
  LET s1 == Spaces1(t, j)
      withDe == IF s1 # 0 /\ StartsAt(t, s1, <<"d", "e">>)
                THEN Spaces1(t, s1 + 2) ELSE 0
  IN IF withDe # 0 /\ YearAt(t, withDe) THEN withDe
     ELSE IF s1 # 0 /\ YearAt(t, s1) THEN s1
     ELSE 0

\* re.search(r"\b(20\d{2})-(0[1-9]|1[0-2])\b", t): the matched text, or None
PeriodLiteralAt(t, i) ==
  /\ Boundary(t, i)
  /\ StartsAt(t, i, <<"2", "0">>)
  /\ DigitsAt(t, i + 2, 2)
  /\ StartsAt(t, i + 4, <<"-">>)
  /\ DigitsAt(t, i + 5, 2)
  /\ \/ t[i + 5] = "0" /\ t[i + 6] # "0"
     \/ t[i + 5] = "1" /\ t[i + 6] \in {"0", "1", "2"}
  /\ Boundary(t, i + 7)

\* a search that never finds the literal
SearchPeriodLiteral_blind(t) == None

SearchPeriodLiteral(t) ==
  LET hits == {i \in 1..Len(t) : PeriodLiteralAt(t, i)}
  IN IF hits = {} THEN None ELSE Some(SubSeq(t, Min(hits), Min(hits) + 6))

_to_periodo(year, month) == Pad(year, 4) \o <<"-">> \o Pad(month, 2)

\* month arithmetic that does not carry into the year
_add_months_unwrapped(y, m, delta) == <<y, m + delta>>

_add_months(y, m, delta) ==
  LET total == (y * 12 + (m - 1)) + delta
  IN <<total \div 12, (total % 12) + 1>>

\* mes = MESES.get(mes_txt[:3]) or MESES.get(mes_txt)
MonthNumber(mes_txt) ==
  LET byKey == MESES_get(SubSeq(mes_txt, 1, 3))
  IN IF byKey # None /\ Get(byKey) # 0 THEN byKey ELSE MESES_get(mes_txt)

\* a month search that never matches
MonthPositions_blind(t) == {}

\* the positions where \b(month)\b matches
MonthPositions(t) == {i \in 1..Len(t) : MonthAt(t, i) # None}

\* the positions where \b(month)\b(?:\s+de)?\s+(20\d{2})\b matches
MonthYearPositions(t) ==
  {i \in MonthPositions(t) : YearAfterMonth(t, i + Len(Get(MonthAt(t, i)))) # 0}

\* a result that keeps a pending month whatever else it holds
NoPeriodo_pending == [periodo |-> None, error |-> None, pending_month |-> Some(1)]

NoPeriodo == [periodo |-> None, error |-> None, pending_month |-> None]

\* parse_periodo_es(texto) evaluated when the clock shows the month
\* today = <<year, month>>: [periodo, error, pending_month].  The error is
\* the clarification "De que año es {mes_txt}? Ej: 2025-{mes:02d}", kept as
\* the month word and the month number it embeds.
parse_periodo_es(texto, today) ==
  LET t == Strip(ToLower(texto))
      lit == SearchPeriodLiteral(texto)
      m2s == MonthYearPositions(t)
      m3s == MonthPositions(t)
  IN IF lit # None THEN [NoPeriodo EXCEPT !.periodo = lit]
     ELSE IF m2s # {} /\ MonthNumber(Get(MonthAt(t, Min(m2s)))) # None
     THEN LET i == Min(m2s)
              mes_txt == Get(MonthAt(t, i))
              y == YearAfterMonth(t, i + Len(mes_txt))
          IN [NoPeriodo EXCEPT
                !.periodo = Some(_to_periodo(ToInt(SubSeq(t, y, y + 3)),
                                             Get(MonthNumber(mes_txt))))]
     ELSE IF m3s # {}
     THEN LET mes_txt == Get(MonthAt(t, Min(m3s)))
          IN [NoPeriodo EXCEPT
                !.error = Some([mes_txt |-> mes_txt, mes |-> Get(MonthNumber(mes_txt))]),
                !.pending_month = MonthNumber(mes_txt)]
     ELSE IF \/ Contains(t, <<"e", "s", "t", "e", " ", "m", "e", "s">>)
             \/ Contains(t, <<"m", "e", "s", " ", "a", "c", "t", "u", "a", "l">>)
     THEN [NoPeriodo EXCEPT !.periodo = Some(_to_periodo(today[1], today[2]))]
     ELSE IF \/ Contains(t, <<"m", "e", "s", " ", "p", "a", "s", "a", "d", "o">>)
             \/ Contains(t, <<"m", "e", "s", " ", "a", "n", "t", "e", "r", "i", "o", "r">>)
     THEN LET ym == _add_months(today[1], today[2], -1)
          IN [NoPeriodo EXCEPT !.periodo = Some(_to_periodo(ym[1], ym[2]))]
     \* "próximo mes" is not spelled here: the vocabulary has no accented letter
     ELSE IF \/ Contains(t, <<"m", "e", "s", " ", "q", "u", "e", " ", "v", "i", "e", "n", "e">>)
             \/ Contains(t, <<"p", "r", "o", "x", "i", "m", "o", " ", "m", "e", "s">>)
             \/ Contains(t, <<"m", "e", "s", " ", "s", "i", "g", "u", "i", "e", "n", "t", "e">>)
     THEN LET ym == _add_months(today[1], today[2], 1)
          IN [NoPeriodo EXCEPT !.periodo = Some(_to_periodo(ym[1], ym[2]))]
     ELSE NoPeriodo

(***************************************************************************)
(* app/db/queries.py: the helpers of ensure_cliente                        *)
(***************************************************************************)
\* re.sub(r"\D", "", value)
_only_digits(value) == SelectSeq(value, IsDigit)

\* re.fullmatch(r"[^@\s]+@[^@\s]+\.[^@\s]+", s.strip())
_is_email(s0) ==
  LET s == Strip(s0)
      ats == {i \in 1..Len(s) : s[i] = "@"}
      at == CHOOSE i \in ats : TRUE
  IN /\ Cardinality(ats) = 1
     /\ \A i \in 1..Len(s) : ~IsSpace(s[i])
     /\ at > 1
     /\ \E d \in (at + 2)..(Len(s) - 1) : s[d] = "."

(***************************************************************************)
(* app/services/agent_logic.py: the functions of the message text          *)
(***************************************************************************)
\* ([^\s]+) after \s*[:=]?\s* from position j, the end of a label: the
\* reference matched, or None.  The optional [:=] is taken when something
\* follows it; otherwise it is itself the first character of the reference.
LabelRef(t, j) ==
  LET k1 == SkipSpaces(t, j)
      k2 == SkipSpaces(t, k1 + 1)
  IN IF k1 > Len(t) THEN None
     ELSE IF t[k1] \in {":", "="} /\ k2 <= Len(t)
     THEN Some(SubSeq(t, k2, SkipNonSpaces(t, k2) - 1))
     ELSE Some(SubSeq(t, k1, SkipNonSpaces(t, k1) - 1))

\* \b(cuit|email) at position i: the position after the label, or 0
LabelAt(t, i) ==
  IF ~Boundary(t, i) THEN 0
  ELSE IF StartsAt(t, i, <<"c", "u", "i", "t">>) THEN i + 4
  ELSE IF StartsAt(t, i, <<"e", "m", "a", "i", "l">>) THEN i + 5
  ELSE 0

\* \b(\d{2}-\d{8}-\d{1})\b at position i
CuitSepAt(t, i) ==
  /\ Boundary(t, i)
  /\ DigitsAt(t, i, 2)
  /\ StartsAt(t, i + 2, <<"-">>)
  /\ DigitsAt(t, i + 3, 8)
  /\ StartsAt(t, i + 11, <<"-">>)
  /\ DigitsAt(t, i + 12, 1)
  /\ Boundary(t, i + 13)

\* \b(\d{11})\b at position i
CuitRawAt(t, i) ==
  /\ Boundary(t, i)
  /\ DigitsAt(t, i, 11)
  /\ Boundary(t, i + 11)

_extract_cliente_ref(msg_l) ==
  LET m  == {i \in 1..Len(msg_l) :
               LabelAt(msg_l, i) # 0 /\ LabelRef(msg_l, LabelAt(msg_l, i)) # None}
      m2 == {i \in 1..Len(msg_l) : CuitSepAt(msg_l, i)}
      m3 == {i \in 1..Len(msg_l) : CuitRawAt(msg_l, i)}
  IN IF m # {} THEN Some(Strip(Get(LabelRef(msg_l, LabelAt(msg_l, Min(m))))))
     ELSE IF m2 # {} THEN Some(SubSeq(msg_l, Min(m2), Min(m2) + 12))
     ELSE IF m3 # {}
     THEN LET raw == SubSeq(msg_l, Min(m3), Min(m3) + 10)
          IN Some(SubSeq(raw, 1, 2) \o <<"-">> \o SubSeq(raw, 3, 10) \o <<"-">>
                    \o SubSeq(raw, 11, 11))
     ELSE None

PeriodIntents ==
  {"iva_resumen_periodo", "ventas_resumen_periodo", "compras_resumen_periodo",
   "resultado_periodo"}

ALLOWED_INTENTS ==
  PeriodIntents \cup
    {"situacion_fiscal", "vencimientos_proximos", "documentos", "identify", "unknown"}

\* a classifier that knows the keyword iva alone
_detect_intent_rules_iva_only(msg_l) ==
  IF Contains(msg_l, <<"i", "v", "a">>) THEN "iva_resumen_periodo" ELSE "unknown"

\* The accented keywords (facturación, gané, perdí) are not spelled here: the
\* vocabulary has no accented letter.
_detect_intent_rules(msg_l) ==
  IF \/ Contains(msg_l, <<"s", "i", "t", "u", "a", "c", "i", "o", "n", " ", "f", "i", "s", "c", "a", "l">>)
     \/ Contains(msg_l, <<"m", "o", "n", "o", "t", "r", "i", "b">>)
     \/ Contains(msg_l, <<"r", "e", "s", "p", "o", "n", "s", "a", "b", "l", "e">>)
  THEN "situacion_fiscal"
  ELSE IF \/ Contains(msg_l, <<"v", "e", "n", "c", "e">>)
          \/ Contains(msg_l, <<"v", "e", "n", "c", "i", "m">>)
          \/ Contains(msg_l, <<"p", "e", "n", "d", "i", "e", "n", "t", "e">>)
  THEN "vencimientos_proximos"
  ELSE IF \/ Contains(msg_l, <<"v", "e", "n", "t", "a", "s">>)
          \/ Contains(msg_l, <<"v", "e", "n", "t", "a">>)
          \/ Contains(msg_l, <<"f", "a", "c", "t", "u", "r", "a", "c", "i", "o", "n">>)
          \/ Contains(msg_l, <<"i", "n", "g", "r", "e", "s", "o", "s">>)
  THEN "ventas_resumen_periodo"
  ELSE IF \/ Contains(msg_l, <<"c", "o", "m", "p", "r", "a", "s">>)
          \/ Contains(msg_l, <<"c", "o", "m", "p", "r", "a">>)
          \/ Contains(msg_l, <<"g", "a", "s", "t", "o", "s">>)
  THEN "compras_resumen_periodo"
  ELSE IF \/ Contains(msg_l, <<"r", "e", "s", "u", "l", "t", "a", "d", "o">>)
          \/ Contains(msg_l, <<"g", "a", "n", "e">>)
          \/ Contains(msg_l, <<"p", "e", "r", "d", "i">>)
          \/ Contains(msg_l, <<"b", "a", "l", "a", "n", "c", "e">>)
  THEN "resultado_periodo"
  ELSE IF Contains(msg_l, <<"i", "v", "a">>) THEN "iva_resumen_periodo"
  ELSE IF \/ Contains(msg_l, <<"d", "o", "c", "u", "m", "e", "n", "t">>)
          \/ Contains(msg_l, <<"c", "o", "n", "s", "t", "a", "n", "c", "i", "a">>)
          \/ Contains(msg_l, <<"d", "d", "j", "j">>)
  THEN "documentos"
  ELSE "unknown"

\* re.fullmatch(r"\s*(20\d{2})\s*", msg): the year, or None
YearOnly(msg) ==
  LET i == SkipSpaces(msg, 1)
  IN IF /\ StartsAt(msg, i, <<"2", "0">>)
        /\ DigitsAt(msg, i + 2, 2)
        /\ SkipSpaces(msg, i + 4) = Len(msg) + 1
     THEN Some(ToInt(SubSeq(msg, i, i + 3)))
     ELSE None

\* What handle_agent computes from the message alone (its steps 1 to 3, the
\* year-only match of step 5 and the qualifier of step 12), for the message
\* text `message` received when the clock shows the month `today`.
Analyse(message, today) ==
  LET msg == Strip(message)
      msg_l == Strip(ToLower(msg))
      mper == SearchPeriodLiteral(msg)
      parsed == parse_periodo_es(msg, today)
  IN [ cliente_ref   |-> _extract_cliente_ref(msg_l),
       periodo       |-> IF mper # None THEN mper ELSE parsed.periodo,
       periodo_error |-> IF mper = None /\ parsed.periodo = None
                         THEN parsed.error ELSE None,
       pending_month |-> IF mper # None THEN None ELSE parsed.pending_month,
       intent        |-> _detect_intent_rules(msg_l),
       year_only     |-> YearOnly(msg),
       este_mes      |-> \/ Contains(msg_l, <<"e", "s", "t", "e", " ", "m", "e", "s">>)
                         \/ Contains(msg_l, <<"e", "n", " ", "e", "l", " ", "m", "e", "s">>) ]


(***************************************************************************)
(* The state.                                                              *)
(***************************************************************************)
VARIABLES
  now,                   \* the clock (_now()), in minutes
  usuarios_cliente,      \* table usuarios_cliente: the whitelist rows
  whatsapp_identity,     \* table whatsapp_identity, keyed by wa_id
  whatsapp_otp,          \* table whatsapp_otp, a row's id is its index
  whatsapp_message_log,  \* table whatsapp_message_log: the message ids logged
  wa_processed_messages, \* table wa_processed_messages: the wamids logged
  clientes,              \* table clientes, a row's id_cliente is its index
  SESSION_CTX,           \* app/core/session.py: session id -> context
  procs,                 \* the requests in flight (concurrent specifications)
  last                   \* the outcome of the last completed request

vars ==
  <<now, usuarios_cliente, whatsapp_identity, whatsapp_otp, whatsapp_message_log,
    wa_processed_messages, clientes, SESSION_CTX, procs, last>>

dbVars ==
  <<usuarios_cliente, whatsapp_identity, whatsapp_otp, whatsapp_message_log,
    wa_processed_messages, clientes>>

Max(S) == CHOOSE x \in S : \A y \in S : y <= x

(***************************************************************************)
(* app/db/queries.py: ensure_cliente and the business queries              *)
(***************************************************************************)
\* REPLACE(cuit, '-', '')
RemoveDashes(x) == SelectSeq(x, LAMBDA c : c # "-")

\* the lookup by email without LOWER(email)
EmailRows_cased(cl, email) ==
  {i \in 1..Len(cl) : cl[i].email # None /\ Get(cl[i].email) = email}

EmailRows(cl, email) ==
  {i \in 1..Len(cl) : cl[i].email # None /\ ToLower(Get(cl[i].email)) = email}

CuitRows(cl, cuit_digits) ==
  {i \in 1..Len(cl) : cl[i].cuit # None /\ RemoveDashes(Get(cl[i].cuit)) = cuit_digits}

\* a storage call (db.execute, db.commit) that fails raises this
StorageFailure == Some("SQLAlchemyError")

\* ensure_cliente(db, cliente_ref) on the table cl, run without interleaving:
\* the set of its possible outcomes [clientes, id, raised].  The first SELECT
\* has LIMIT 1 and no ORDER BY, so it may return any matching row.  Each
\* storage call may fail: before the commit the table is as it was, after
\* it (in the re-read) the placeholder record is there.
ensure_cliente(cl, cliente_ref) ==
  LET ref == Strip(ToLower(cliente_ref))
      cuit_digits == _only_digits(ref)
      cuit_formatted == SubSeq(cuit_digits, 1, 2) \o <<"-">> \o SubSeq(cuit_digits, 3, 10)
                          \o <<"-">> \o SubSeq(cuit_digits, 11, Len(cuit_digits))
      withEmail == Append(cl, [cuit |-> None, email |-> Some(ref)])
      withCuit == Append(cl, [cuit |-> Some(cuit_formatted), email |-> None])
  IN IF ref = << >>
     THEN {[clientes |-> cl, id |-> None, raised |-> Some("ValueError")]}
     ELSE IF _is_email(ref)
     THEN IF EmailRows(cl, ref) # {}
          THEN {[clientes |-> cl, id |-> Some(i), raised |-> None] : i \in EmailRows(cl, ref)}
                 \cup {[clientes |-> cl, id |-> None, raised |-> StorageFailure]}
          ELSE {[clientes |-> withEmail, id |-> Some(Max(EmailRows(withEmail, ref))),
                 raised |-> None]}
                 \cup {[clientes |-> c, id |-> None, raised |-> StorageFailure]
                         : c \in {cl, withEmail}}
     ELSE IF Len(cuit_digits) # 11
     THEN {[clientes |-> cl, id |-> None, raised |-> Some("ValueError")]}
     ELSE IF CuitRows(cl, cuit_digits) # {}
     THEN {[clientes |-> cl, id |-> Some(i), raised |-> None] : i \in CuitRows(cl, cuit_digits)}
            \cup {[clientes |-> cl, id |-> None, raised |-> StorageFailure]}
     ELSE {[clientes |-> withCuit, id |-> Some(Max(CuitRows(withCuit, cuit_digits))),
            raised |-> None]}
            \cup {[clientes |-> c, id |-> None, raised |-> StorageFailure]
                    : c \in {cl, withCuit}}

\* The business queries read views that the model does not hold: a query is
\* the record of its call, and its result is found or not found.
Query(name, id_cliente, periodo) ==
  [name |-> name, id_cliente |-> id_cliente, periodo |-> periodo]

PeriodQueryOf(intent) ==
  CASE intent = "iva_resumen_periodo" -> "_get_iva_periodo"
    [] intent = "ventas_resumen_periodo" -> "_get_ventas_periodo"
    [] intent = "compras_resumen_periodo" -> "_get_compras_periodo"
    [] intent = "resultado_periodo" -> "_get_resultado_periodo"

(***************************************************************************)
(* app/services/agent_logic.py: handle_agent                               *)
(***************************************************************************)
EmptyCtx ==
  [cliente_ref |-> None, id_cliente |-> None, pending_month |-> None,
   pending_intent |-> None]

AgentResponse(intent, reply, missing, data) ==
  [intent |-> intent, reply |-> reply, missing |-> missing, data |-> data]

\* an outcome of a turn: the session map and the customers after it, the
\* response or the exception raised, and the queries executed
Outcome(S, cl, resp, raised, queries, ensured) ==
  [SESSION_CTX |-> S, clientes |-> cl, resp |-> resp, raised |-> raised,
   queries |-> queries, ensured |-> ensured]

\* a failing query answered with the guidance instead of raising
Aborted_answered(S, cl, qs, ensured) ==
  Outcome(S, cl, Some(AgentResponse("unknown", "guidance", << >>, None)), None, qs, ensured)

\* a turn aborted by the failure of the last of the queries qs
Aborted(S, cl, qs, ensured) == Outcome(S, cl, None, StorageFailure, qs, ensured)

\* step 12 of handle_agent, the dispatch: the outcomes for an intent that
\* needs no further slot.  A query that fails ends the turn.
Dispatch(S, cl, an, intent, periodo, id_cliente, ensured) ==
  IF intent = "vencimientos_proximos"
  THEN LET modo == IF an.este_mes THEN "mes_actual" ELSE "proximos"
           qs == <<Query("_get_vencimientos", id_cliente, Some(modo)),
                   Query("_count_vencidos_recientes", id_cliente, None)>>
       IN {Outcome(S, cl,
                   Some(AgentResponse(intent,
                          IF v THEN "vencimientos_list" ELSE "vencimientos_none",
                          << >>, Some("vencimientos"))),
                   None, qs, ensured) : v \in BOOLEAN}
            \cup {Aborted(S, cl, SubSeq(qs, 1, n), ensured) : n \in 1..2}
  ELSE IF intent \in PeriodIntents
  THEN LET qs == <<Query(PeriodQueryOf(intent), id_cliente, periodo)>>
       IN {Outcome(S, cl,
                   Some(IF found
                        THEN AgentResponse(intent, "summary", << >>, Some("summary"))
                        ELSE AgentResponse(intent, "not_found", << >>, None)),
                   None, qs, ensured) : found \in BOOLEAN}
            \cup {Aborted(S, cl, qs, ensured)}
  ELSE IF intent = "situacion_fiscal"
  THEN {Outcome(S, cl,
                Some(AgentResponse(intent,
                       IF found THEN "impuestos_list" ELSE "impuestos_none",
                       << >>, Some("impuestos"))),
                None, <<Query("_get_situacion_fiscal", id_cliente, None)>>, ensured)
          : found \in BOOLEAN}
         \cup {Aborted(S, cl, <<Query("_get_situacion_fiscal", id_cliente, None)>>, ensured)}
  ELSE IF intent = "documentos"
  THEN {Outcome(S, cl,
                Some(AgentResponse(intent,
                       IF found THEN "documentos_list" ELSE "documentos_none",
                       << >>, Some("documentos"))),
                None, <<Query("_get_documentos", id_cliente, None)>>, ensured)
          : found \in BOOLEAN}
         \cup {Aborted(S, cl, <<Query("_get_documentos", id_cliente, None)>>, ensured)}
  ELSE {Outcome(S, cl, Some(AgentResponse("unknown", "guidance", << >>, None)),
                None, << >>, ensured)}

\* steps 9 to 12 of handle_agent without the request for the reference of
\* step 10
Respond_unasked(S0, sid, ctx, cl, an, intent, periodo, id_cliente, ensured) ==
  LET S == [k \in DOMAIN S0 \cup {sid} |-> IF k = sid THEN ctx ELSE S0[k]]
      pending == [ctx EXCEPT !.pending_month = an.pending_month,
                             !.pending_intent = Some(intent)]
      Sp == [S EXCEPT ![sid] = pending]
  IN IF intent = "identify"
     THEN {Outcome(S, cl,
                   Some(AgentResponse("identify", "identified", << >>,
                          IF id_cliente # None THEN Some("id_cliente") ELSE None)),
                   None, << >>, ensured)}
     ELSE IF intent \in PeriodIntents /\ periodo = None
     THEN {Outcome(IF an.pending_month # None THEN Sp ELSE S, cl,
                   Some(AgentResponse(intent,
                          IF an.periodo_error # None THEN "periodo_error" ELSE "ask_periodo",
                          <<"periodo">>, None)),
                   None, << >>, ensured)}
     ELSE Dispatch(S, cl, an, intent, periodo, id_cliente, ensured)

\* the dispatch reached without the check of the period
Respond_eager(S0, sid, ctx, cl, an, intent, periodo, id_cliente, ensured) ==
  Dispatch([k \in DOMAIN S0 \cup {sid} |-> IF k = sid THEN ctx ELSE S0[k]],
           cl, an, intent, periodo, id_cliente, ensured)

\* steps 9 to 12 of handle_agent, once the customer id is resolved (or is
\* still absent): ctx is the session's context, written back into S
Respond(S0, sid, ctx, cl, an, intent, periodo, id_cliente, ensured) ==
  LET S == [k \in DOMAIN S0 \cup {sid} |-> IF k = sid THEN ctx ELSE S0[k]]
      pending == [ctx EXCEPT !.pending_month = an.pending_month,
                             !.pending_intent = Some(intent)]
      Sp == [S EXCEPT ![sid] = pending]
  IN IF intent = "identify"
     THEN {Outcome(S, cl,
                   Some(AgentResponse("identify", "identified", << >>,
                          IF id_cliente # None THEN Some("id_cliente") ELSE None)),
                   None, << >>, ensured)}
     ELSE IF id_cliente = None /\ ctx.cliente_ref = None
     THEN {Outcome(S, cl,
                   Some(AgentResponse(intent, "need_cliente_ref", <<"cliente_ref">>, None)),
                   None, << >>, ensured)}
     ELSE IF intent \in PeriodIntents /\ periodo = None
     THEN {Outcome(IF an.pending_month # None THEN Sp ELSE S, cl,
                   Some(AgentResponse(intent,
                          IF an.periodo_error # None THEN "periodo_error" ELSE "ask_periodo",
                          <<"periodo">>, None)),
                   None, << >>, ensured)}
     ELSE Dispatch(S, cl, an, intent, periodo, id_cliente, ensured)

\* the clean-up that pops the month alone
PopPending_month_only(ctx) == [ctx EXCEPT !.pending_month = None]

\* the clean-up of step 5: ctx.pop("pending_month"), ctx.pop("pending_intent")
PopPending(ctx) == [ctx EXCEPT !.pending_month = None, !.pending_intent = None]

\* handle_agent without the clean-up of the pending month and intent
handle_agent_keeping_pending(S, cl, sid, an) ==
  LET ctx0 == IF sid \in DOMAIN S THEN S[sid] ELSE EmptyCtx
      cont == an.periodo = None /\ an.year_only # None /\ ctx0.pending_month # None
      periodo == IF cont
                 THEN Some(_to_periodo(Get(an.year_only), Get(ctx0.pending_month)))
                 ELSE an.periodo
      intent1 == IF cont /\ an.intent = "unknown" /\ ctx0.pending_intent # None
                 THEN Get(ctx0.pending_intent) ELSE an.intent
      ctx1 == ctx0
      intent == IF an.cliente_ref # None /\ intent1 = "unknown" /\ periodo = None
                THEN "identify" ELSE intent1
      ctx2 == IF an.cliente_ref # None
              THEN [ctx1 EXCEPT !.cliente_ref = an.cliente_ref] ELSE ctx1
      ref == IF an.cliente_ref # None THEN an.cliente_ref ELSE ctx2.cliente_ref
      S2 == [k \in DOMAIN S \cup {sid} |-> IF k = sid THEN ctx2 ELSE S[k]]
  IN IF ctx2.id_cliente = None /\ ref # None
     THEN UNION {
            IF e.raised # None
            THEN {Outcome(S2, e.clientes, None, e.raised, << >>, TRUE)}
            ELSE Respond(S, sid, [ctx2 EXCEPT !.id_cliente = e.id], e.clientes, an,
                         intent, periodo, e.id, TRUE)
            : e \in ensure_cliente(cl, Get(ref))}
     ELSE Respond(S, sid, ctx2, cl, an, intent, periodo, ctx2.id_cliente, FALSE)

\* steps 5 to 8 of handle_agent storing the reference of the message only
\* when ensure_cliente would accept it
Prepare_validating(ctx0, an) ==
  LET cont == an.periodo = None /\ an.year_only # None /\ ctx0.pending_month # None
      periodo == IF cont
                 THEN Some(_to_periodo(Get(an.year_only), Get(ctx0.pending_month)))
                 ELSE an.periodo
      intent1 == IF cont /\ an.intent = "unknown" /\ ctx0.pending_intent # None
                 THEN Get(ctx0.pending_intent) ELSE an.intent
      ctx1 == IF cont THEN PopPending(ctx0) ELSE ctx0
      ctx2 == IF /\ an.cliente_ref # None
                 /\ \/ _is_email(Strip(ToLower(Get(an.cliente_ref))))
                    \/ Len(_only_digits(Strip(ToLower(Get(an.cliente_ref))))) = 11
              THEN [ctx1 EXCEPT !.cliente_ref = an.cliente_ref] ELSE ctx1
  IN [ ctx |-> ctx2,
       intent |-> IF an.cliente_ref # None /\ intent1 = "unknown" /\ periodo = None
                  THEN "identify" ELSE intent1,
       periodo |-> periodo,
       ref |-> IF an.cliente_ref # None THEN an.cliente_ref ELSE ctx2.cliente_ref ]

\* steps 5 to 8 of handle_agent dropping the pending pair as soon as the
\* turn has a period, its own or the one of the continuation
Prepare_clearing(ctx0, an) ==
  LET cont == an.periodo = None /\ an.year_only # None /\ ctx0.pending_month # None
      periodo == IF cont
                 THEN Some(_to_periodo(Get(an.year_only), Get(ctx0.pending_month)))
                 ELSE an.periodo
      intent1 == IF cont /\ an.intent = "unknown" /\ ctx0.pending_intent # None
                 THEN Get(ctx0.pending_intent) ELSE an.intent
      ctx1 == IF periodo # None THEN PopPending(ctx0) ELSE ctx0
      ctx2 == IF an.cliente_ref # None
              THEN [ctx1 EXCEPT !.cliente_ref = an.cliente_ref] ELSE ctx1
  IN [ ctx |-> ctx2,
       intent |-> IF an.cliente_ref # None /\ intent1 = "unknown" /\ periodo = None
                  THEN "identify" ELSE intent1,
       periodo |-> periodo,
       ref |-> IF an.cliente_ref # None THEN an.cliente_ref ELSE ctx2.cliente_ref ]

\* steps 5 to 8 of handle_agent taking a message with a reference and no
\* keyword for an identification, a period resolved or not
Prepare_identifying(ctx0, an) ==
  LET cont == an.periodo = None /\ an.year_only # None /\ ctx0.pending_month # None
      periodo == IF cont
                 THEN Some(_to_periodo(Get(an.year_only), Get(ctx0.pending_month)))
                 ELSE an.periodo
      intent1 == IF cont /\ an.intent = "unknown" /\ ctx0.pending_intent # None
                 THEN Get(ctx0.pending_intent) ELSE an.intent
      ctx1 == IF cont THEN PopPending(ctx0) ELSE ctx0
      ctx2 == IF an.cliente_ref # None
              THEN [ctx1 EXCEPT !.cliente_ref = an.cliente_ref] ELSE ctx1
  IN [ ctx |-> ctx2,
       intent |-> IF an.cliente_ref # None /\ intent1 = "unknown"
                  THEN "identify" ELSE intent1,
       periodo |-> periodo,
       ref |-> IF an.cliente_ref # None THEN an.cliente_ref ELSE ctx2.cliente_ref ]

\* steps 5 to 8 of handle_agent up to the call of ensure_cliente, on the
\* context ctx0 of the session: the context as written so far, the intent,
\* the period and the reference to resolve
Prepare(ctx0, an) ==
  LET cont == an.periodo = None /\ an.year_only # None /\ ctx0.pending_month # None
      periodo == IF cont
                 THEN Some(_to_periodo(Get(an.year_only), Get(ctx0.pending_month)))
                 ELSE an.periodo
      intent1 == IF cont /\ an.intent = "unknown" /\ ctx0.pending_intent # None
                 THEN Get(ctx0.pending_intent) ELSE an.intent
      ctx1 == IF cont THEN PopPending(ctx0) ELSE ctx0
      ctx2 == IF an.cliente_ref # None
              THEN [ctx1 EXCEPT !.cliente_ref = an.cliente_ref] ELSE ctx1
  IN [ ctx |-> ctx2,
       intent |-> IF an.cliente_ref # None /\ intent1 = "unknown" /\ periodo = None
                  THEN "identify" ELSE intent1,
       periodo |-> periodo,
       ref |-> IF an.cliente_ref # None THEN an.cliente_ref ELSE ctx2.cliente_ref ]

\* handle_agent resolving the customer anew whenever the message carries a
\* reference
handle_agent_reresolving(S, cl, sid, an) ==
  LET ctx0 == IF sid \in DOMAIN S THEN S[sid] ELSE EmptyCtx
      pre == Prepare(ctx0, an)
      ctx2 == pre.ctx
      S2 == [k \in DOMAIN S \cup {sid} |-> IF k = sid THEN ctx2 ELSE S[k]]
  IN IF (ctx2.id_cliente = None \/ an.cliente_ref # None) /\ pre.ref # None
     THEN UNION {
            IF e.raised # None
            THEN {Outcome(S2, e.clientes, None, e.raised, << >>, TRUE)}
            ELSE Respond(S, sid, [ctx2 EXCEPT !.id_cliente = e.id], e.clientes, an,
                         pre.intent, pre.periodo, e.id, TRUE)
            : e \in ensure_cliente(cl, Get(pre.ref))}
     ELSE Respond(S, sid, ctx2, cl, an, pre.intent, pre.periodo, ctx2.id_cliente, FALSE)

\* handle_agent(db, req) for the session sid and a message whose analysis is
\* an, run without interleaving on the session map S and the customers cl:
\* the set of its possible outcomes.  The context is the dict held by
\* SESSION_CTX, so what the turn wrote before an exception stays written.
handle_agent(S, cl, sid, an) ==
  LET ctx0 == IF sid \in DOMAIN S THEN S[sid] ELSE EmptyCtx
      pre == Prepare(ctx0, an)
      ctx2 == pre.ctx
      S2 == [k \in DOMAIN S \cup {sid} |-> IF k = sid THEN ctx2 ELSE S[k]]
  IN IF ctx2.id_cliente = None /\ pre.ref # None
     THEN UNION {
            IF e.raised # None
            THEN {Outcome(S2, e.clientes, None, e.raised, << >>, TRUE)}
            ELSE Respond(S, sid, [ctx2 EXCEPT !.id_cliente = e.id], e.clientes, an,
                         pre.intent, pre.periodo, e.id, TRUE)
            : e \in ensure_cliente(cl, Get(pre.ref))}
     ELSE Respond(S, sid, ctx2, cl, an, pre.intent, pre.periodo, ctx2.id_cliente, FALSE)


(***************************************************************************)
(* The requests of the model: the messages, and what a claim says of one.  *)
(***************************************************************************)
\* (20\d{2}) as a word of its own at position i
YearWordAt(t, i) == Boundary(t, i) /\ YearAt(t, i)

\* What the text of a message contains, read off the text alone.
Facts(message) ==
  LET t == ToLower(message)
  IN [ tax_id |-> \E i \in 1..Len(t) : CuitSepAt(t, i) \/ CuitRawAt(t, i),
       month  |-> \E i \in 1..Len(t) : MonthAt(t, i) # None,
       year   |-> \E i \in 1..Len(t) : YearWordAt(t, i) \/ PeriodLiteralAt(t, i) ]

\* the months the clock may show when a message arrives
Calendar == {<<2025, 1>>, <<2025, 12>>}

\* A request: the analysis of a message and the facts of its text.  Messages
\* with the same analysis and facts are one request.
Requests(words) ==
  {[an |-> Analyse(Join(ws), today), facts |-> Facts(Join(ws))] :
     ws \in WordSeqs(words, MaxMsgLen), today \in Calendar}

AgentWords ==
  {"iva", "ventas", "vence", "dic", "y2025", "p202512", "cuit", "es", "cuitSep", "mail"}

\* longer messages, as senders write them
AgentPhrases ==
  {<<"cuit", "es", "cuitSep">>, <<"iva", "de", "dic">>, <<"ventas", "mayo">>, <<"iva", "mes", "pasado">>}

AgentRequests ==
  Requests(AgentWords)
    \cup {[an |-> Analyse(Join(ws), today), facts |-> Facts(Join(ws))] :
            ws \in AgentPhrases, today \in Calendar}

\* the session ids clients of POST /agent supply
AgentSessions == {<<"s", "1">>}

(***************************************************************************)
(* POST /agent (app/api/agent.py): one turn of the dialogue engine.        *)
(***************************************************************************)
NoRequest == [op |-> "none"]

CtxOf(S, sid) == IF sid \in DOMAIN S THEN Some(S[sid]) ELSE None

AgentTurn(sid, req) ==
  \E out \in handle_agent(SESSION_CTX, clientes, sid, req.an) :
    /\ SESSION_CTX' = out.SESSION_CTX
    /\ clientes' = out.clientes
    /\ last' = [op |-> "agent", sid |-> sid, req |-> req,
                before |-> CtxOf(SESSION_CTX, sid),
                resp |-> out.resp, raised |-> out.raised, queries |-> out.queries,
                ensured |-> out.ensured]
    /\ UNCHANGED <<now, usuarios_cliente, whatsapp_identity, whatsapp_otp,
                   whatsapp_message_log, wa_processed_messages, procs>>

\* The customers on record when the service starts: none, or one customer
\* registered with the tax id of the vocabulary.
InitialClientes ==
  {<< >>, <<[cuit |-> Some(Spelling["cuitSep"]), email |-> None]>>}

InitAgent ==
  /\ now = 0
  /\ usuarios_cliente = {}
  /\ whatsapp_identity = << >>
  /\ whatsapp_otp = << >>
  /\ whatsapp_message_log = {}
  /\ wa_processed_messages = {}
  /\ clientes \in InitialClientes
  /\ SESSION_CTX = << >>
  /\ procs = << >>
  /\ last = NoRequest

NextAgent == \E sid \in AgentSessions, req \in AgentRequests : AgentTurn(sid, req)

SpecAgent == InitAgent /\ [][NextAgent]_vars


(***************************************************************************)
(* app/services/wa_gateway.py                                              *)
(***************************************************************************)
OTP_REVERIFY_DAYS == 30
OTP_TTL_MINUTES == 10
MinutesPerDay == 1440
AttemptCap == 5

\* timedelta(days=_reverify_days()) and timedelta(minutes=_otp_ttl_minutes())
ReverifyWindow == OTP_REVERIFY_DAYS * MinutesPerDay
OtpTtl == OTP_TTL_MINUTES

_digits_only(s) == SelectSeq(s, IsDigit)

\* OTP_RE.match(text_msg), ^\s*(\d{6})\s*$: the code, or None
OtpCode(text_msg) ==
  LET i == SkipSpaces(text_msg, 1)
  IN IF DigitsAt(text_msg, i, 6) /\ SkipSpaces(text_msg, i + 6) = Len(text_msg) + 1
     THEN Some(SubSeq(text_msg, i, i + 5))
     ELSE None

\* hashlib.sha256(msg).hexdigest(), taken to be free of collisions
Sha256(msg) == <<"sha256", msg>>

OTP_SALT == <<"d", "e", "v", "_", "s", "a", "l", "t">>

_hash_otp(code) == Sha256(OTP_SALT \o <<":">> \o code)

\* INSERT INTO whatsapp_message_log(message_id, wa_id): message_id is the
\* table's unique key, so the insert of a logged id raises
LogInsert(log, message_id, wa_id) ==
  IF \E r \in log : r.message_id = message_id
  THEN [raised |-> TRUE, log |-> log]
  ELSE [raised |-> FALSE, log |-> log \cup {[message_id |-> message_id, wa_id |-> wa_id]}]

\* not message_id: None and the empty string are falsy
Falsy(message_id) == message_id = None \/ Get(message_id) = << >>

\* _dedupe_message reporting a new message whatever the insert does
_dedupe_message_open(log, message_id, wa_id) ==
  IF Falsy(message_id) THEN [new |-> TRUE, log |-> log]
  ELSE [new |-> TRUE, log |-> LogInsert(log, Get(message_id), wa_id).log]

\* _dedupe_message without the INSERT
_dedupe_message_unlogged(log, message_id, wa_id) == [new |-> TRUE, log |-> log]

\* _dedupe_message(db, message_id, wa_id): [new, log]
_dedupe_message(log, message_id, wa_id) ==
  IF Falsy(message_id) THEN [new |-> TRUE, log |-> log]
  ELSE LET ins == LogInsert(log, Get(message_id), wa_id)
       IN IF ins.raised THEN [new |-> FALSE, log |-> log]
          ELSE [new |-> TRUE, log |-> ins.log]

(***************************************************************************)
(* app/db/wa_dedupe.py                                                     *)
(***************************************************************************)
\* INSERT INTO wa_processed_messages (wamid): wamid is the table's unique
\* key, so the insert of a recorded wamid raises
ProcessedInsert(tab, wamid) ==
  IF wamid \in tab THEN [raised |-> TRUE, tab |-> tab]
  ELSE [raised |-> FALSE, tab |-> tab \cup {wamid}]

\* mark_processed(db, wamid): [new, tab]
mark_processed(tab, wamid) ==
  IF Falsy(wamid) THEN [new |-> TRUE, tab |-> tab]
  ELSE LET ins == ProcessedInsert(tab, Get(wamid))
       IN IF ins.raised THEN [new |-> FALSE, tab |-> tab]
          ELSE [new |-> TRUE, tab |-> ins.tab]

NoUser == None
AmbiguousUser == Some([ambiguous |-> TRUE, id_usuario |-> 0, id_cliente |-> 0])
User(r) == Some([ambiguous |-> FALSE, id_usuario |-> r.id_usuario, id_cliente |-> r.id_cliente])

\* SELECT ... FROM usuarios_cliente WHERE telefono = :tel
RowsByPhone(rows, tel) == {r \in rows : r.telefono = tel}

RECURSIVE TryVariants(_, _)
\* the loop of _find_user_by_phone over the variants in the order vs
TryVariants(rows, vs) ==
  IF vs = << >> THEN NoUser
  ELSE LET row == RowsByPhone(rows, Head(vs))
       IN IF Cardinality(row) = 1
          THEN LET r == CHOOSE x \in row : TRUE
               IN IF r.activo # 1 THEN NoUser ELSE User(r)
          ELSE IF Cardinality(row) > 1 THEN AmbiguousUser
          ELSE TryVariants(rows, Tail(vs))

\* _find_user_by_phone(db, wa_id): the variants are a Python set of two
\* strings, iterated in an order the hash seed of the process decides, so
\* both orders are possible.
_find_user_by_phone(rows, wa_id) ==
  {TryVariants(rows, <<wa_id, <<"+">> \o wa_id>>),
   TryVariants(rows, <<<<"+">> \o wa_id, wa_id>>)}

\* _get_identity(db, wa_id)
_get_identity(ident, wa_id) ==
  IF wa_id \in DOMAIN ident THEN Some(ident[wa_id]) ELSE None

\* _upsert_identity dropping the verification when the record passes to
\* another customer
_upsert_identity_rebinding(ident, wa_id, id_usuario, id_cliente) ==
  LET row == IF wa_id \in DOMAIN ident
             THEN [ident[wa_id] EXCEPT !.id_usuario = id_usuario,
                                       !.id_cliente = id_cliente,
                                       !.verified_at =
                                          IF ident[wa_id].id_cliente = id_cliente
                                          THEN @ ELSE None,
                                       !.status = "active"]
             ELSE [id_usuario |-> id_usuario, id_cliente |-> id_cliente,
                   verified_at |-> None, status |-> "default"]
  IN [k \in DOMAIN ident \cup {wa_id} |-> IF k = wa_id THEN row ELSE ident[k]]

\* _upsert_identity writing the whole row anew, the verification included
_upsert_identity_resetting(ident, wa_id, id_usuario, id_cliente) ==
  [k \in DOMAIN ident \cup {wa_id} |->
     IF k = wa_id
     THEN [id_usuario |-> id_usuario, id_cliente |-> id_cliente,
           verified_at |-> None, status |-> "active"]
     ELSE ident[k]]

\* _upsert_identity(db, wa_id, id_usuario, id_cliente).  The column
\* last_seen_at is written and never read, and is left out of the row.
_upsert_identity(ident, wa_id, id_usuario, id_cliente) ==
  LET row == IF wa_id \in DOMAIN ident
             THEN [ident[wa_id] EXCEPT !.id_usuario = id_usuario,
                                       !.id_cliente = id_cliente,
                                       !.status = "active"]
             ELSE [id_usuario |-> id_usuario, id_cliente |-> id_cliente,
                   verified_at |-> None, status |-> "default"]
  IN [k \in DOMAIN ident \cup {wa_id} |-> IF k = wa_id THEN row ELSE ident[k]]

\* _mark_verified(db, wa_id) at time t
_mark_verified(ident, wa_id, t) ==
  IF wa_id \in DOMAIN ident
  THEN [ident EXCEPT ![wa_id].verified_at = Some(t), ![wa_id].status = "active"]
  ELSE ident

\* _needs_reverify asking for a verification on every message
_needs_reverify_always(identity, t) == TRUE

\* _needs_reverify without the test of the age of the verification
_needs_reverify_ageless(identity, t) ==
  identity = None \/ Get(identity).verified_at = None

\* _needs_reverify(identity) at time t
_needs_reverify(identity, t) ==
  IF identity = None \/ Get(identity).verified_at = None THEN TRUE
  ELSE Get(Get(identity).verified_at) < t - ReverifyWindow

\* _create_otp carrying the attempts counted on the previous row over
_create_otp_inheriting(otp, wa_id, code, t) ==
  Append(otp, [wa_id |-> wa_id, code_hash |-> _hash_otp(code),
               expires_at |-> t + OtpTtl,
               attempts |-> IF otp = << >> THEN 0 ELSE otp[Len(otp)].attempts,
               used_at |-> None])

\* _create_otp(db, wa_id) at time t, the random code being code
_create_otp(otp, wa_id, code, t) ==
  Append(otp, [wa_id |-> wa_id, code_hash |-> _hash_otp(code),
               expires_at |-> t + OtpTtl, attempts |-> 0, used_at |-> None])

\* ORDER BY id DESC LIMIT 1 among the rows of wa_id: the row id, or 0
LatestOtp(otp, wa_id) ==
  LET ids == {i \in 1..Len(otp) : otp[i].wa_id = wa_id}
  IN IF ids = {} THEN 0 ELSE Max(ids)

\* _verify_otp reading the newest row that holds the submitted code, when
\* there is one, instead of the newest row
_verify_otp_any_code(otp, wa_id, code, t) ==
  LET holding == {i \in 1..Len(otp) :
                    otp[i].wa_id = wa_id /\ otp[i].code_hash = _hash_otp(code)}
      id == IF holding # {} THEN Max(holding) ELSE LatestOtp(otp, wa_id)
      row == otp[id]
      ok == row.code_hash = _hash_otp(code)
      counted == [otp EXCEPT ![id].attempts = @ + 1]
  IN IF id = 0 THEN [ok |-> FALSE, otp |-> otp]
     ELSE IF row.used_at # None THEN [ok |-> FALSE, otp |-> otp]
     ELSE IF row.attempts >= AttemptCap THEN [ok |-> FALSE, otp |-> otp]
     ELSE IF row.expires_at < t THEN [ok |-> FALSE, otp |-> otp]
     ELSE [ok |-> ok,
           otp |-> IF ok THEN [counted EXCEPT ![id].used_at = Some(t)] ELSE counted]

\* _verify_otp refusing an address once any of its codes has reached the
\* cap
_verify_otp_capping_address(otp, wa_id, code, t) ==
  LET id == LatestOtp(otp, wa_id)
      row == otp[id]
      ok == row.code_hash = _hash_otp(code)
      counted == [otp EXCEPT ![id].attempts = @ + 1]
      capped == \E i \in 1..Len(otp) : otp[i].wa_id = wa_id /\ otp[i].attempts >= AttemptCap
  IN IF id = 0 THEN [ok |-> FALSE, otp |-> otp]
     ELSE IF row.used_at # None THEN [ok |-> FALSE, otp |-> otp]
     ELSE IF capped THEN [ok |-> FALSE, otp |-> otp]
     ELSE IF row.expires_at < t THEN [ok |-> FALSE, otp |-> otp]
     ELSE [ok |-> ok,
           otp |-> IF ok THEN [counted EXCEPT ![id].used_at = Some(t)] ELSE counted]

\* _verify_otp without the test of the attempts counted
_verify_otp_uncapped(otp, wa_id, code, t) ==
  LET id == LatestOtp(otp, wa_id)
      row == otp[id]
      ok == row.code_hash = _hash_otp(code)
      counted == [otp EXCEPT ![id].attempts = @ + 1]
  IN IF id = 0 THEN [ok |-> FALSE, otp |-> otp]
     ELSE IF row.used_at # None THEN [ok |-> FALSE, otp |-> otp]
     ELSE IF row.expires_at < t THEN [ok |-> FALSE, otp |-> otp]
     ELSE [ok |-> ok,
           otp |-> IF ok THEN [counted EXCEPT ![id].used_at = Some(t)] ELSE counted]

\* _verify_otp without the test of used_at
_verify_otp_reusable(otp, wa_id, code, t) ==
  LET id == LatestOtp(otp, wa_id)
      row == otp[id]
      ok == row.code_hash = _hash_otp(code)
      counted == [otp EXCEPT ![id].attempts = @ + 1]
  IN IF id = 0 THEN [ok |-> FALSE, otp |-> otp]
     ELSE IF row.attempts >= AttemptCap THEN [ok |-> FALSE, otp |-> otp]
     ELSE IF row.expires_at < t THEN [ok |-> FALSE, otp |-> otp]
     ELSE [ok |-> ok,
           otp |-> IF ok THEN [counted EXCEPT ![id].used_at = Some(t)] ELSE counted]

\* _verify_otp counting the attempt only when the code matches
_verify_otp_uncounted(otp, wa_id, code, t) ==
  LET id == LatestOtp(otp, wa_id)
      row == otp[id]
      ok == row.code_hash = _hash_otp(code)
  IN IF id = 0 THEN [ok |-> FALSE, otp |-> otp]
     ELSE IF row.used_at # None THEN [ok |-> FALSE, otp |-> otp]
     ELSE IF row.attempts >= AttemptCap THEN [ok |-> FALSE, otp |-> otp]
     ELSE IF row.expires_at < t THEN [ok |-> FALSE, otp |-> otp]
     ELSE [ok |-> ok,
           otp |-> IF ok THEN [otp EXCEPT ![id].attempts = @ + 1, ![id].used_at = Some(t)]
                   ELSE otp]

\* _verify_otp(db, wa_id, code) at time t, run without interleaving: [ok, otp]
_verify_otp(otp, wa_id, code, t) ==
  LET id == LatestOtp(otp, wa_id)
      row == otp[id]
      ok == row.code_hash = _hash_otp(code)
      counted == [otp EXCEPT ![id].attempts = @ + 1]
  IN IF id = 0 THEN [ok |-> FALSE, otp |-> otp]
     ELSE IF row.used_at # None THEN [ok |-> FALSE, otp |-> otp]
     ELSE IF row.attempts >= AttemptCap THEN [ok |-> FALSE, otp |-> otp]
     ELSE IF row.expires_at < t THEN [ok |-> FALSE, otp |-> otp]
     ELSE [ok |-> ok,
           otp |-> IF ok THEN [counted EXCEPT ![id].used_at = Some(t)] ELSE counted]

\* f"wa:{wa_id}"
WaSession(wa_id) == <<"w", "a", ":">> \o wa_id


\* the codes secrets.randbelow may draw, and the ones a sender may type
Codes == {Spelling["code1"], Spelling["code2"]}

\* what a delivery did, for the record of the last request
GateOut(log, ident, otp, S, cl, reply, code, lookup, user, needs, agent) ==
  [whatsapp_message_log |-> log, whatsapp_identity |-> ident, whatsapp_otp |-> otp,
   SESSION_CTX |-> S, clientes |-> cl, reply |-> reply, code |-> code,
   lookup |-> lookup, user |-> user, needs |-> needs,
   forwarded |-> agent # None,
   queries |-> IF agent = None THEN << >> ELSE Get(agent).queries,
   resp |-> IF agent = None THEN None ELSE Get(agent).resp,
   raised |-> IF agent = None THEN None ELSE Get(agent).raised]

\* an early return of handle_whatsapp that drops the identities on record
Refuse_revoking(db, S, log, reply, lookup, user) ==
  GateOut(log, << >>, db.whatsapp_otp, S, db.clientes,
          reply, None, lookup, user, None, None)

\* the early returns of handle_whatsapp, steps 0 and 1: nothing but the
\* message log has changed
Refuse(db, S, log, reply, lookup, user) ==
  GateOut(log, db.whatsapp_identity, db.whatsapp_otp, S, db.clientes,
          reply, None, lookup, user, None, None)

\* step 4 of handle_whatsapp keeping the customer id a session already holds
PinCliente_keeping(S, sid, id_cliente) ==
  [k \in DOMAIN S \cup {sid} |->
     IF k = sid
     THEN IF sid \in DOMAIN S /\ S[sid].id_cliente # None THEN S[sid]
          ELSE [(IF sid \in DOMAIN S THEN S[sid] ELSE EmptyCtx)
                  EXCEPT !.id_cliente = Some(id_cliente)]
     ELSE S[k]]

\* step 4 of handle_whatsapp: the context of the session, created when
\* missing, with ctx["id_cliente"] = int(user["id_cliente"])
PinCliente(S, sid, id_cliente) ==
  [k \in DOMAIN S \cup {sid} |->
     IF k = sid
     THEN [(IF sid \in DOMAIN S THEN S[sid] ELSE EmptyCtx) EXCEPT !.id_cliente = Some(id_cliente)]
     ELSE S[k]]

\* handle_whatsapp(db, from_number, text_msg, message_id) at time t: the set
\* of its outcomes, one for each code _create_otp may draw
handle_whatsapp(db, S, from_number, req, message_id, t) ==
  LET wa_id == _digits_only(from_number)
      dd == IF Falsy(message_id) THEN [new |-> TRUE, log |-> db.whatsapp_message_log]
            ELSE _dedupe_message(db.whatsapp_message_log, message_id, wa_id)
      ident0 == db.whatsapp_identity
      otp0 == db.whatsapp_otp
      Stop(reply, lookup, user) == Refuse(db, S, dd.log, reply, lookup, user)
  IN IF ~dd.new THEN {Stop("ack", FALSE, None)}
     ELSE UNION {
       IF user = None THEN {Stop("not_authorized", TRUE, user)}
       ELSE IF Get(user).ambiguous THEN {Stop("ambiguous", TRUE, user)}
       ELSE
         LET ident1 == _upsert_identity(ident0, wa_id, Get(user).id_usuario, Get(user).id_cliente)
             identity == _get_identity(ident1, wa_id)
             m == OtpCode(req.text)
             Gate(ident, otp, reply, sent) ==
               GateOut(dd.log, ident, otp, S, db.clientes, reply, sent, TRUE, user, Some(TRUE), None)
         IN IF _needs_reverify(identity, t)
            THEN IF m # None
                 THEN LET v == _verify_otp(otp0, wa_id, Get(m), t)
                      IN IF v.ok
                         THEN {Gate(_mark_verified(ident1, wa_id, t), v.otp, "verified", None)}
                         ELSE {Gate(ident1, v.otp, "otp_failed", None)}
                 ELSE {Gate(ident1, _create_otp(otp0, wa_id, code, t), "otp_sent", Some(code))
                         : code \in Codes}
            ELSE LET session_id == WaSession(wa_id)
                     S1 == PinCliente(S, session_id, Get(user).id_cliente)
                 IN {GateOut(dd.log, ident1, otp0, a.SESSION_CTX, a.clientes,
                             IF a.raised # None THEN "unhandled" ELSE Get(a.resp).reply,
                             None, TRUE, user, Some(FALSE), Some(a))
                       : a \in handle_agent(S1, db.clientes, session_id, req.an)}
       : user \in _find_user_by_phone(db.usuarios_cliente, wa_id)}


(***************************************************************************)
(* POST /wa/agent (app/api/wa.py): deliveries through the gateway, one at  *)
(* a time, and the clock.                                                  *)
(***************************************************************************)
Phone == <<"5", "4", "9">>
PlusPhone == <<"+">> \o Phone

\* two spellings of the sender's number
FromNumbers == {PlusPhone, <<"5", "4", " ", "9">>}

MessageIds == {None, Some(<< >>), Some(<<"m", "1">>)}

WaTexts == {<<"code1">>, <<"code2">>, <<"iva", "p202512">>}

WaRequests ==
  {[text |-> Join(ws), an |-> Analyse(Join(ws), today)] : ws \in WaTexts, today \in Calendar}

WhitelistRow(id_usuario, id_cliente, telefono, activo) ==
  [id_usuario |-> id_usuario, id_cliente |-> id_cliente, telefono |-> telefono,
   activo |-> activo]

\* The whitelists the administrator may have set up: no record, one record
\* of user 1, active or not, with the number in either form, or that and an
\* active record of user 2 of another customer.
Whitelists ==
  LET first == {WhitelistRow(1, 1, Phone, 1), WhitelistRow(1, 1, Phone, 0),
                WhitelistRow(1, 1, PlusPhone, 1)}
      second == {WhitelistRow(2, 2, tel, 1) : tel \in {Phone, PlusPhone}}
  IN {{}} \cup {{r} : r \in first} \cup {{WhitelistRow(1, 1, Phone, 1), q} : q \in second}

Database ==
  [usuarios_cliente |-> usuarios_cliente, whatsapp_identity |-> whatsapp_identity,
   whatsapp_otp |-> whatsapp_otp, whatsapp_message_log |-> whatsapp_message_log,
   clientes |-> clientes]

RECURSIVE Attempts(_)
\* the validations counted on the rows of the code table
Attempts(otp) ==
  IF otp = << >> THEN 0 ELSE Head(otp).attempts + Attempts(Tail(otp))

\* the events that make the code table grow: the codes issued and the
\* validations counted
OtpEvents(otp) == Len(otp) + Attempts(otp)

Deliver(from_number, req, message_id) ==
  \E out \in handle_whatsapp(Database, SESSION_CTX, from_number, req, message_id, now) :
    /\ OtpEvents(out.whatsapp_otp) <= MaxOtpEvents
    /\ whatsapp_message_log' = out.whatsapp_message_log
    /\ whatsapp_identity' = out.whatsapp_identity
    /\ whatsapp_otp' = out.whatsapp_otp
    /\ SESSION_CTX' = out.SESSION_CTX
    /\ clientes' = out.clientes
    /\ last' = [op |-> "wa", wa_id |-> _digits_only(from_number),
                message_id |-> message_id, text |-> req.text,
                reply |-> out.reply, code |-> out.code, lookup |-> out.lookup,
                user |-> out.user, needs |-> out.needs, forwarded |-> out.forwarded,
                queries |-> out.queries, resp |-> out.resp, raised |-> out.raised]
    /\ UNCHANGED <<now, usuarios_cliente, wa_processed_messages, procs>>

\* The instants at which the passing of time changes what the gateway does:
\* the expiry of a code and the end of the re-verification window of an
\* identity, and the minute after each.
Instants ==
  LET ends == {whatsapp_otp[i].expires_at : i \in 1..Len(whatsapp_otp)}
                \cup {Get(whatsapp_identity[w].verified_at) + ReverifyWindow :
                        w \in {x \in DOMAIN whatsapp_identity :
                                 whatsapp_identity[x].verified_at # None}}
  IN ends \cup {t + 1 : t \in ends}

\* the clock advances to a later one of these instants
Tick(t) ==
  /\ t > now
  /\ now' = t
  /\ last' = [op |-> "tick"]
  /\ UNCHANGED <<dbVars, SESSION_CTX, procs>>

\* the administrator edits the whitelist
Administer(rows) ==
  /\ rows # usuarios_cliente
  /\ usuarios_cliente' = rows
  /\ last' = [op |-> "admin"]
  /\ UNCHANGED <<now, whatsapp_identity, whatsapp_otp, whatsapp_message_log,
                 wa_processed_messages, clientes, SESSION_CTX, procs>>

Init ==
  /\ now = 0
  /\ usuarios_cliente \in Whitelists
  /\ whatsapp_identity = << >>
  /\ whatsapp_otp = << >>
  /\ whatsapp_message_log = {}
  /\ wa_processed_messages = {}
  /\ clientes = <<[cuit |-> Some(Spelling["cuitSep"]), email |-> None]>>
  /\ SESSION_CTX = << >>
  /\ procs = << >>
  /\ last = NoRequest

Next ==
  \/ \E from_number \in FromNumbers, req \in WaRequests : Deliver(from_number, req, None)
  \/ \E t \in Instants : Tick(t)

Spec == Init /\ [][Next]_vars

\* deliveries, with and without a message id, while the administrator
\* edits the whitelist
NextAdmin ==
  \/ \E from_number \in FromNumbers, req \in WaRequests, message_id \in MessageIds :
        Deliver(from_number, req, message_id)
  \/ \E rows \in Whitelists : Administer(rows)

SpecAdmin == Init /\ [][NextAdmin]_vars


(***************************************************************************)
(* The verification gate.                                                  *)
(***************************************************************************)
\* the identity of wa_id in the table ident holds a verification made no
\* longer than the re-verification window before t
FreshlyVerified(ident, wa_id, t) ==
  /\ wa_id \in DOMAIN ident
  /\ ident[wa_id].verified_at # None
  /\ t - Get(ident[wa_id].verified_at) <= ReverifyWindow

\* C1: a delivery is forwarded to the agent only if, when it arrives, the
\* identity of the sender holds a verification no older than the
\* re-verification window; and a delivery on which verification is required
\* (a code is issued, fails or validates) executes no business query and
\* leaves the session contexts as they were.
C1_GateBeforeAgent ==
  [][last'.op = "wa" =>
       /\ last'.forwarded => /\ FreshlyVerified(whatsapp_identity, last'.wa_id, now)
                             /\ last'.needs = Some(FALSE)
       /\ last'.queries # << >> => last'.forwarded
       /\ last'.reply \in {"otp_sent", "otp_failed", "verified"} =>
            /\ last'.needs = Some(TRUE)
            /\ ~last'.forwarded
            /\ last'.queries = << >>
            /\ SESSION_CTX' = SESSION_CTX
            /\ clientes' = clientes
       /\ last'.needs = Some(TRUE) =>
            last'.reply \in {"otp_sent", "otp_failed", "verified"}]_vars

\* a delivery of a verified sender was forwarded and ran a business query
C1_Witness ==
  /\ last.op = "wa"
  /\ last.forwarded
  /\ last.queries # << >>
  /\ FreshlyVerified(whatsapp_identity, last.wa_id, now)


(***************************************************************************)
(* Validation of a code.                                                   *)
(***************************************************************************)
\* the latest code of wa_id is unconsumed, unexpired at t and below the cap
LatestValid(otp, wa_id, t) ==
  LET id == LatestOtp(otp, wa_id)
  IN /\ id # 0
     /\ otp[id].used_at = None
     /\ otp[id].attempts < AttemptCap
     /\ otp[id].expires_at >= t

\* the latest code of wa_id is consumed
LatestConsumed(otp, wa_id) ==
  LET id == LatestOtp(otp, wa_id)
  IN id # 0 /\ otp[id].used_at # None

\* the next request is a delivery that submits a 6-digit code while the
\* sender needs verification
SubmitsCode ==
  /\ last'.op = "wa"
  /\ last'.needs = Some(TRUE)
  /\ OtpCode(last'.text) # None

\* the code the next request submits matches the latest code of its sender
SubmittedMatches ==
  whatsapp_otp[LatestOtp(whatsapp_otp, last'.wa_id)].code_hash
    = _hash_otp(Get(OtpCode(last'.text)))

\* C2: the submission of the code that matches the latest, unconsumed,
\* unexpired code with attempts below the cap consumes the code and marks the
\* identity verified; a consumed code is never touched again, and every later
\* submission to _verify_otp while it is the latest code fails, whatever
\* happened in between.
C2_CodeConsumedOnce ==
  [][/\ SubmitsCode /\ LatestValid(whatsapp_otp, last'.wa_id, now) /\ SubmittedMatches =>
          /\ last'.reply = "verified"
          /\ whatsapp_otp'[LatestOtp(whatsapp_otp, last'.wa_id)].used_at = Some(now)
          /\ whatsapp_identity'[last'.wa_id].verified_at = Some(now)
     /\ \A i \in 1..Len(whatsapp_otp) :
          whatsapp_otp[i].used_at # None =>
            i <= Len(whatsapp_otp') /\ whatsapp_otp'[i] = whatsapp_otp[i]
     /\ \A w \in DOMAIN whatsapp_identity, code \in Codes :
          LatestConsumed(whatsapp_otp, w) => ~_verify_otp(whatsapp_otp, w, code, now).ok
     /\ SubmitsCode /\ LatestConsumed(whatsapp_otp, last'.wa_id) =>
          /\ last'.reply = "otp_failed"
          /\ whatsapp_identity'[last'.wa_id].verified_at
               = whatsapp_identity[last'.wa_id].verified_at]_vars

\* the consumed code was submitted again, once the verification had grown
\* stale, and failed
C2_Witness ==
  /\ last.op = "wa"
  /\ last.reply = "otp_failed"
  /\ LatestConsumed(whatsapp_otp, last.wa_id)
  /\ whatsapp_otp[LatestOtp(whatsapp_otp, last.wa_id)].code_hash
       = _hash_otp(Get(OtpCode(last.text)))

\* C3: the submission of a 6-digit code that does not match the latest valid
\* code gets the failure reply, counts exactly one attempt on that code,
\* leaves it unconsumed and leaves the identity unverified.
C3_WrongCodeCounted ==
  [][SubmitsCode /\ LatestValid(whatsapp_otp, last'.wa_id, now) /\ ~SubmittedMatches =>
       LET id == LatestOtp(whatsapp_otp, last'.wa_id)
       IN /\ last'.reply = "otp_failed"
          /\ whatsapp_otp' = [whatsapp_otp EXCEPT ![id].attempts = @ + 1]
          /\ whatsapp_otp'[id].used_at = None
          /\ whatsapp_identity'[last'.wa_id].verified_at
               = whatsapp_identity[last'.wa_id].verified_at
          /\ _needs_reverify(Some(whatsapp_identity'[last'.wa_id]), now)
          /\ ~last'.forwarded]_vars

\* a wrong code was submitted against a valid code and counted
C3_Witness ==
  /\ last.op = "wa"
  /\ last.reply = "otp_failed"
  /\ LatestOtp(whatsapp_otp, last.wa_id) # 0
  /\ LET row == whatsapp_otp[LatestOtp(whatsapp_otp, last.wa_id)]
     IN /\ row.used_at = None
        /\ row.attempts >= 1
        /\ row.expires_at >= now
        /\ row.code_hash # _hash_otp(Get(OtpCode(last.text)))


(***************************************************************************)
(* Re-delivery and the whitelist.                                          *)
(***************************************************************************)
Logged(log, message_id) == \E r \in log : r.message_id = message_id

\* C5: a delivery with a non-empty message id logs the id, and a later
\* delivery with that id gets the acknowledgement and does nothing else: no
\* whitelist lookup, no identity upsert, no code issued or validated, no
\* business query, no session touched; so no query runs twice for one id.
C5_RedeliveryAcknowledged ==
  [][last'.op = "wa" /\ ~Falsy(last'.message_id) =>
       /\ Logged(whatsapp_message_log', Get(last'.message_id))
       /\ Logged(whatsapp_message_log, Get(last'.message_id)) =>
            /\ last'.reply = "ack"
            /\ ~last'.lookup
            /\ ~last'.forwarded
            /\ last'.queries = << >>
            /\ last'.code = None
            /\ UNCHANGED <<whatsapp_message_log, whatsapp_identity, whatsapp_otp,
                           SESSION_CTX, clientes>>]_vars

\* a verified sender's business message was delivered again and acknowledged
C5_Witness ==
  /\ last.op = "wa"
  /\ last.reply = "ack"
  /\ ~Falsy(last.message_id)
  /\ OtpCode(last.text) = None
  /\ FreshlyVerified(whatsapp_identity, last.wa_id, now)
  /\ _find_user_by_phone(usuarios_cliente, last.wa_id) = {User(WhitelistRow(1, 1, Phone, 1))}

\* the active whitelist records whose number normalises to wa_id
ActivePairings(rows, wa_id) ==
  {r \in rows : r.activo = 1 /\ _digits_only(r.telefono) = wa_id}

\* C7: while two active whitelist records share the normalised address of
\* the sender, a delivery that reaches the lookup gets the ambiguity reply,
\* upserts no identity, issues no code and is not forwarded.
C7_SharedAddressRefused ==
  [][/\ last'.op = "wa"
     /\ last'.lookup
     /\ Cardinality(ActivePairings(usuarios_cliente, last'.wa_id)) >= 2
     => /\ last'.reply = "ambiguous"
        /\ ~last'.forwarded
        /\ last'.code = None
        /\ UNCHANGED <<whatsapp_identity, whatsapp_otp>>]_vars

\* C8: a delivery whose whitelist lookup finds no pairing or an ambiguous
\* one gets the matching denial and leaves the identities, the codes, the
\* session contexts and the customers as they were.
C8_DenialChangesNothing ==
  [][last'.op = "wa" /\ last'.lookup /\ (last'.user = None \/ Get(last'.user).ambiguous) =>
       /\ last'.reply = (IF last'.user = None THEN "not_authorized" ELSE "ambiguous")
       /\ ~last'.forwarded
       /\ last'.queries = << >>
       /\ last'.code = None
       /\ UNCHANGED <<whatsapp_identity, whatsapp_otp, SESSION_CTX, clientes>>]_vars

\* a sender with an identity, a code and a session on record was denied
C8_Witness ==
  /\ last.op = "wa"
  /\ last.reply \in {"not_authorized", "ambiguous"}
  /\ last.wa_id \in DOMAIN whatsapp_identity
  /\ whatsapp_otp # << >>
  /\ WaSession(last.wa_id) \in DOMAIN SESSION_CTX


(***************************************************************************)
(* Concurrent validations: _verify_otp run by requests of one sender at    *)
(* the same time, each on its own database session.  A SELECT reads the    *)
(* committed rows without locking, an UPDATE locks its row until the       *)
(* COMMIT of its transaction, and attempts = attempts + 1 is computed on   *)
(* the committed row.                                                      *)
(***************************************************************************)
Validators == 1..NumValidators

\* some other validator holds the lock of row id
LockedByOther(p, id) ==
  \E q \in Validators \ {p} : procs[q].id = id /\ procs[q].pc \in {"consume", "commit"}

\* the SELECT of _verify_otp and the four tests of the row it read
VerifyRead(p) ==
  LET me == procs[p]
      id == LatestOtp(whatsapp_otp, me.wa_id)
      row == whatsapp_otp[id]
      refused == \/ id = 0
                 \/ row.used_at # None
                 \/ row.attempts >= AttemptCap
                 \/ row.expires_at < now
  IN /\ me.pc = "read"
     /\ procs' = [procs EXCEPT ![p] =
                    IF refused THEN [me EXCEPT !.pc = "done", !.result = Some(FALSE)]
                    ELSE [me EXCEPT !.pc = "incr", !.id = id,
                                    !.ok = (row.code_hash = _hash_otp(me.code))]]
     /\ UNCHANGED <<now, dbVars, SESSION_CTX, last>>

\* UPDATE whatsapp_otp SET attempts = attempts + 1 WHERE id = :id
VerifyIncrement(p) ==
  LET me == procs[p]
  IN /\ me.pc = "incr"
     /\ ~LockedByOther(p, me.id)
     /\ procs' = [procs EXCEPT ![p].pc = IF me.ok THEN "consume" ELSE "commit"]
     /\ UNCHANGED <<now, dbVars, SESSION_CTX, last>>

\* UPDATE whatsapp_otp SET used_at = :now WHERE id = :id
VerifyConsume(p) ==
  /\ procs[p].pc = "consume"
  /\ procs' = [procs EXCEPT ![p].pc = "commit", ![p].used_at = Some(now)]
  /\ UNCHANGED <<now, dbVars, SESSION_CTX, last>>

\* db.commit() and return ok
VerifyCommit(p) ==
  LET me == procs[p]
  IN /\ me.pc = "commit"
     /\ whatsapp_otp' =
          [whatsapp_otp EXCEPT ![me.id].attempts = @ + 1,
                               ![me.id].used_at = IF me.used_at # None THEN me.used_at ELSE @]
     /\ procs' = [procs EXCEPT ![p].pc = IF me.ok THEN "mark" ELSE "done",
                               ![p].result = Some(me.ok)]
     /\ UNCHANGED <<now, usuarios_cliente, whatsapp_identity, whatsapp_message_log,
                    wa_processed_messages, clientes, SESSION_CTX, last>>

\* handle_whatsapp after a successful validation: _mark_verified
VerifyMark(p) ==
  /\ procs[p].pc = "mark"
  /\ whatsapp_identity' = _mark_verified(whatsapp_identity, procs[p].wa_id, now)
  /\ procs' = [procs EXCEPT ![p].pc = "done"]
  /\ UNCHANGED <<now, usuarios_cliente, whatsapp_otp, whatsapp_message_log,
                 wa_processed_messages, clientes, SESSION_CTX, last>>

\* A sender on the whitelist, not verified, with one code issued at time 0
\* and some attempts counted; every validator submits some code.
InitVerify ==
  /\ now \in {0, OtpTtl, OtpTtl + 1}
  /\ usuarios_cliente = {WhitelistRow(1, 1, Phone, 1)}
  /\ whatsapp_identity = _upsert_identity(<< >>, Phone, 1, 1)
  /\ \E code \in Codes, n \in 0..AttemptCap :
       whatsapp_otp = <<[_create_otp(<< >>, Phone, code, 0)[1] EXCEPT !.attempts = n]>>
  /\ whatsapp_message_log = {}
  /\ wa_processed_messages = {}
  /\ clientes = <<[cuit |-> Some(Spelling["cuitSep"]), email |-> None]>>
  /\ SESSION_CTX = << >>
  /\ procs \in [Validators ->
                  {[pc |-> "read", wa_id |-> Phone, code |-> c, id |-> 0, ok |-> FALSE,
                    used_at |-> None, result |-> None] : c \in Codes}]
  /\ last = NoRequest

NextVerify ==
  \E p \in Validators :
    \/ VerifyRead(p)
    \/ VerifyIncrement(p)
    \/ VerifyConsume(p)
    \/ VerifyCommit(p)
    \/ VerifyMark(p)

SpecVerify == InitVerify /\ [][NextVerify]_vars

\* the validators to which _verify_otp returned success
Succeeded == {p \in Validators : procs[p].result = Some(TRUE)}

\* C4: of the concurrent validations of one sender that submit the same
\* correct code, at most one succeeds.
C4_OneValidationSucceeds ==
  \A p, q \in Succeeded : procs[p].code = procs[q].code => p = q


(***************************************************************************)
(* Concurrent deliveries at the dedupe gates.  A delivery of the webhook   *)
(* (app/api/ycloud.py) passes mark_processed and then, inside              *)
(* handle_whatsapp, _dedupe_message; a delivery of POST /wa/agent passes   *)
(* _dedupe_message only.  An INSERT of a key that another transaction has  *)
(* inserted and not yet committed waits for that transaction.              *)
(***************************************************************************)
Deliveries == 1..NumDeliveries

Routes == {"wa", "ycloud"}

\* another delivery has inserted message_id at the same gate and has not
\* committed yet
InsertPending(p, message_id, pc) ==
  \E q \in Deliveries \ {p} : procs[q].message_id = message_id /\ procs[q].pc = pc

\* the INSERT of mark_processed, and its except branch
MarkInsert(p) ==
  LET me == procs[p]
      r == mark_processed(wa_processed_messages, me.message_id)
  IN /\ me.pc = "mark"
     /\ ~InsertPending(p, me.message_id, "mark_commit")
     /\ procs' = [procs EXCEPT ![p].pc =
                    IF ~r.new THEN "ignored"
                    ELSE IF Falsy(me.message_id) THEN "dedupe" ELSE "mark_commit"]
     /\ UNCHANGED <<now, dbVars, SESSION_CTX, last>>

\* the db.commit() of mark_processed
MarkCommit(p) ==
  /\ procs[p].pc = "mark_commit"
  /\ wa_processed_messages' = mark_processed(wa_processed_messages, procs[p].message_id).tab
  /\ procs' = [procs EXCEPT ![p].pc = "dedupe"]
  /\ UNCHANGED <<now, usuarios_cliente, whatsapp_identity, whatsapp_otp,
                 whatsapp_message_log, clientes, SESSION_CTX, last>>

\* the INSERT of _dedupe_message, and its except branch
DedupeInsert(p) ==
  LET me == procs[p]
      r == _dedupe_message(whatsapp_message_log, me.message_id, me.wa_id)
  IN /\ me.pc = "dedupe"
     /\ ~InsertPending(p, me.message_id, "dedupe_commit")
     /\ procs' = [procs EXCEPT ![p].pc =
                    IF ~r.new THEN "ack"
                    ELSE IF Falsy(me.message_id) THEN "proceed" ELSE "dedupe_commit"]
     /\ UNCHANGED <<now, dbVars, SESSION_CTX, last>>

\* the db.commit() of _dedupe_message: the delivery goes on to the whitelist
DedupeCommit(p) ==
  /\ procs[p].pc = "dedupe_commit"
  /\ whatsapp_message_log' =
       _dedupe_message(whatsapp_message_log, procs[p].message_id, procs[p].wa_id).log
  /\ procs' = [procs EXCEPT ![p].pc = "proceed"]
  /\ UNCHANGED <<now, usuarios_cliente, whatsapp_identity, whatsapp_otp,
                 wa_processed_messages, clientes, SESSION_CTX, last>>

InitDedupe ==
  /\ now = 0
  /\ usuarios_cliente = {WhitelistRow(1, 1, Phone, 1)}
  /\ whatsapp_identity = << >>
  /\ whatsapp_otp = << >>
  /\ whatsapp_message_log = {}
  /\ wa_processed_messages = {}
  /\ clientes = <<[cuit |-> Some(Spelling["cuitSep"]), email |-> None]>>
  /\ SESSION_CTX = << >>
  /\ procs \in [Deliveries ->
                  {[route |-> r, message_id |-> m, wa_id |-> Phone,
                    pc |-> IF r = "ycloud" THEN "mark" ELSE "dedupe"] :
                     r \in Routes, m \in MessageIds}]
  /\ last = NoRequest

NextDedupe ==
  \E p \in Deliveries :
    \/ MarkInsert(p)
    \/ MarkCommit(p)
    \/ DedupeInsert(p)
    \/ DedupeCommit(p)

SpecDedupe == InitDedupe /\ [][NextDedupe]_vars

\* the deliveries that carry message_id
Carrying(message_id) == {p \in Deliveries : procs[p].message_id = message_id}

\* C6: of the concurrent deliveries that carry one non-empty message id, at
\* most one ever passes the dedupe gate, and once all of them have left the
\* gates exactly one has passed and the others were short-circuited.
C6_OneDeliveryPasses ==
  \A m \in MessageIds :
    ~Falsy(m) /\ Carrying(m) # {} =>
      LET passed == {p \in Carrying(m) : procs[p].pc = "proceed"}
          stopped == {p \in Carrying(m) : procs[p].pc \in {"ack", "ignored"}}
      IN /\ Cardinality(passed) <= 1
         /\ passed \cup stopped = Carrying(m) => Cardinality(passed) = 1

\* three deliveries of one message id have left the gates
C6_Witness ==
  \E m \in MessageIds :
    /\ ~Falsy(m)
    /\ Cardinality(Carrying(m)) >= 3
    /\ \A p \in Carrying(m) : procs[p].pc \in {"proceed", "ack", "ignored"}
    /\ \E p, q \in Carrying(m) : procs[p].route # procs[q].route


(***************************************************************************)
(* The dialogue engine.                                                    *)
(***************************************************************************)
\* the context the session of the next turn holds before the turn
Before == CtxOf(SESSION_CTX, last'.sid)

HasCliente(ctx) == ctx # None /\ Get(ctx).id_cliente # None

\* C9: in a session with a resolved customer, a turn that names a
\* period-bound intent and a month without a year stores the month and the
\* intent as pending and replies with the year clarification, running no
\* query; and a turn that is exactly a year 20dd, in a session that holds a
\* pending month and intent, resolves the period to that year and month,
\* runs the query of the pending intent on it, asks nothing unless storage
\* fails in that query, and leaves both pending fields absent.
C9_TwoTurnSlotFilling ==
  [][last'.op = "agent" /\ HasCliente(Before) =>
       LET an == last'.req.an
           facts == last'.req.facts
           ctx == Get(Before)
           after == SESSION_CTX'[last'.sid]
       IN /\ an.intent \in PeriodIntents /\ facts.month /\ ~facts.year =>
               /\ last'.raised = None
               /\ Get(last'.resp).intent = an.intent
               /\ Get(last'.resp).reply = "periodo_error"
               /\ Get(last'.resp).missing = <<"periodo">>
               /\ last'.queries = << >>
               /\ an.pending_month # None
               /\ after.pending_month = an.pending_month
               /\ after.pending_intent = Some(an.intent)
          /\ an.year_only # None /\ ctx.pending_month # None /\ ctx.pending_intent # None =>
               /\ last'.raised \in {None, StorageFailure}
               /\ last'.raised = None =>
                    /\ Get(last'.resp).intent = Get(ctx.pending_intent)
                    /\ Get(last'.resp).reply \in {"summary", "not_found"}
                    /\ Get(last'.resp).missing = << >>
               /\ last'.queries =
                    <<Query(PeriodQueryOf(Get(ctx.pending_intent)), ctx.id_cliente,
                            Some(_to_periodo(Get(an.year_only), Get(ctx.pending_month))))>>
               /\ after.pending_month = None
               /\ after.pending_intent = None]_vars

\* the second turn: a year answered the clarification and the pending
\* intent's query ran on the period resolved
C9_Witness ==
  /\ last.op = "agent"
  /\ HasCliente(last.before)
  /\ Get(last.before).pending_month = Some(12)
  /\ Get(last.before).pending_intent = Some("iva_resumen_periodo")
  /\ last.req.an.year_only = Some(2025)
  /\ last.queries = <<Query("_get_iva_periodo", Get(last.before).id_cliente,
                            Some(Spelling["p202512"]))>>
  /\ last.raised = None
  /\ SESSION_CTX[last.sid].pending_month = None

\* C10: a turn whose message contains a valid tax id, no intent keyword and
\* no period answers with intent identify, the confirmation and an empty
\* missing list, and runs no business query, whatever the session holds,
\* when storage does not fail.
C10_TaxIdIdentifies ==
  /\ last.op = "agent"
  /\ last.raised # StorageFailure
  /\ last.req.facts.tax_id
  /\ last.req.an.intent = "unknown"
  /\ last.req.an.periodo = None /\ ~last.req.facts.month /\ ~last.req.facts.year
  => /\ last.raised = None
     /\ Get(last.resp).intent = "identify"
     /\ Get(last.resp).reply = "identified"
     /\ Get(last.resp).missing = << >>
     /\ last.queries = << >>


\* C11: a turn whose intent is one of the four period-bound intents, that
\* resolves no period and ends with a customer id in the session, returns
\* missing = ["periodo"] for that intent and executes no query; storage is
\* not reached after the customer is resolved, so such a turn never aborts.
C11_NoPeriodNoQuery ==
  [][/\ last'.op = "agent"
     /\ last'.req.an.intent \in PeriodIntents
     /\ last'.req.an.periodo = None
     /\ SESSION_CTX'[last'.sid].id_cliente # None
     => /\ last'.raised = None
        /\ Get(last'.resp).intent = last'.req.an.intent
        /\ Get(last'.resp).missing = <<"periodo">>
        /\ Get(last'.resp).data = None
        /\ last'.queries = << >>]_vars

\* a period-bound intent without a period and without a month, from a
\* customer the turn itself resolved, was asked for the period
C11_Witness ==
  /\ last.op = "agent"
  /\ last.req.an.intent = "ventas_resumen_periodo"
  /\ last.req.an.periodo = None
  /\ last.req.an.pending_month = None
  /\ last.ensured
  /\ SESSION_CTX[last.sid].id_cliente # None
  /\ last.resp # None
  /\ Get(last.resp).missing = <<"periodo">>
  /\ last.queries = << >>


\* C12: in every state reached by turns of handle_agent, those aborted by a
\* failure of storage in ensure_cliente or in a query included, every session
\* context holds a pending month if and only if it holds a pending intent.
C12_PendingPair ==
  \A sid \in DOMAIN SESSION_CTX :
    (SESSION_CTX[sid].pending_month # None) <=> (SESSION_CTX[sid].pending_intent # None)

\* a turn was aborted by a storage failure in a session that holds a
\* pending month and intent
C12_Witness ==
  /\ last.op = "agent"
  /\ last.raised = StorageFailure
  /\ SESSION_CTX[last.sid].pending_month # None
  /\ SESSION_CTX[last.sid].pending_intent # None


(***************************************************************************)
(* Concurrent turns of POST /agent.  The endpoint is a plain def, which    *)
(* the framework runs on a pool of threads; SESSION_CTX is a module-level  *)
(* dict without a lock, and every turn of a session works on the same      *)
(* context dict.  A turn is split where another thread may run between     *)
(* two of its statements: at its storage calls and between the two writes  *)
(* of the pending pair.                                                    *)
(***************************************************************************)
Turns == 1..NumTurns

TurnTexts ==
  {<<"cuitSep">>, <<"mail">>, <<"iva", "dic">>, <<"ventas", "mayo">>, <<"y2025">>,
   <<"vence">>}

TurnRequests == {Analyse(Join(ws), today) : ws \in TurnTexts, today \in Calendar}

\* the customers on record: one known by tax id, one by email
TwoClientes ==
  <<[cuit |-> Some(Spelling["cuitSep"]), email |-> None],
    [cuit |-> None, email |-> Some(Spelling["mail"])]>>

\* lines 113-145: the context is fetched or created, the bare-year
\* continuation pops the pending pair, the reference of the message is
\* stored, and the turn reads the customer id the context holds
TurnBegin(p) ==
  LET me == procs[p]
      ctx0 == IF me.sid \in DOMAIN SESSION_CTX THEN SESSION_CTX[me.sid] ELSE EmptyCtx
      pre == Prepare(ctx0, me.an)
  IN /\ me.pc = "begin"
     /\ SESSION_CTX' = [k \in DOMAIN SESSION_CTX \cup {me.sid} |->
                          IF k = me.sid THEN pre.ctx ELSE SESSION_CTX[k]]
     /\ procs' = [procs EXCEPT ![p] =
                    [me EXCEPT !.intent = pre.intent, !.periodo = pre.periodo,
                               !.ref = pre.ref, !.id_cliente = pre.ctx.id_cliente,
                               !.pc = IF pre.ctx.id_cliente = None /\ pre.ref # None
                                      THEN "ensure" ELSE "respond"]]
     /\ UNCHANGED <<now, dbVars, last>>

\* line 146: id_cliente = ensure_cliente(db, ref), with storage at work
TurnEnsure(p) ==
  /\ procs[p].pc = "ensure"
  /\ \E e \in ensure_cliente(clientes, Get(procs[p].ref)) :
       /\ e.raised # StorageFailure
       /\ clientes' = e.clientes
       /\ procs' = [procs EXCEPT ![p].id_cliente = e.id,
                                 ![p].pc = IF e.raised # None THEN "done" ELSE "bind"]
  /\ UNCHANGED <<now, usuarios_cliente, whatsapp_identity, whatsapp_otp,
                 whatsapp_message_log, wa_processed_messages, SESSION_CTX, last>>

\* line 147: ctx["id_cliente"] = id_cliente
TurnBind(p) ==
  /\ procs[p].pc = "bind"
  /\ SESSION_CTX' = [SESSION_CTX EXCEPT ![procs[p].sid].id_cliente = procs[p].id_cliente]
  /\ procs' = [procs EXCEPT ![p].pc = "respond"]
  /\ UNCHANGED <<now, dbVars, last>>

\* lines 150-178: the early returns, and the first write of the pending pair
TurnRespond(p) ==
  LET me == procs[p]
      ctx == SESSION_CTX[me.sid]
      asks == me.intent \in PeriodIntents /\ me.periodo = None
      Goto(pc) == procs' = [procs EXCEPT ![p].pc = pc]
  IN /\ me.pc = "respond"
     /\ IF me.intent = "identify" \/ (me.id_cliente = None /\ ctx.cliente_ref = None)
        THEN Goto("done") /\ UNCHANGED SESSION_CTX
        ELSE IF asks /\ me.an.pending_month # None
        THEN /\ SESSION_CTX' = [SESSION_CTX EXCEPT ![me.sid].pending_month = me.an.pending_month]
             /\ Goto("pending_intent")
        ELSE IF asks \/ me.intent \in {"unknown"}
        THEN Goto("done") /\ UNCHANGED SESSION_CTX
        ELSE Goto("query") /\ UNCHANGED SESSION_CTX
     /\ UNCHANGED <<now, dbVars, last>>

\* line 179: ctx["pending_intent"] = intent, and the return
TurnPendingIntent(p) ==
  /\ procs[p].pc = "pending_intent"
  /\ SESSION_CTX' = [SESSION_CTX EXCEPT ![procs[p].sid].pending_intent = Some(procs[p].intent)]
  /\ procs' = [procs EXCEPT ![p].pc = "done"]
  /\ UNCHANGED <<now, dbVars, last>>

\* step 12: the queries of the intent, and the return
TurnQuery(p) ==
  /\ procs[p].pc = "query"
  /\ procs' = [procs EXCEPT ![p].pc = "done"]
  /\ UNCHANGED <<now, dbVars, SESSION_CTX, last>>

\* Turns of one session arrive together.  The session is new or holds a
\* resolved customer; last keeps the state they arrived in.
InitTurns ==
  /\ now = 0
  /\ usuarios_cliente = {}
  /\ whatsapp_identity = << >>
  /\ whatsapp_otp = << >>
  /\ whatsapp_message_log = {}
  /\ wa_processed_messages = {}
  /\ clientes = TwoClientes
  /\ SESSION_CTX \in
       {<< >>,
        [k \in AgentSessions |->
           [EmptyCtx EXCEPT !.cliente_ref = Some(Spelling["cuitSep"]), !.id_cliente = Some(1)]]}
  /\ procs \in [Turns ->
                  {[sid |-> sid, an |-> an, pc |-> "begin", intent |-> "unknown",
                    periodo |-> None, ref |-> None, id_cliente |-> None] :
                     sid \in AgentSessions, an \in TurnRequests}]
  /\ last = [op |-> "turns", SESSION_CTX |-> SESSION_CTX, clientes |-> clientes]

NextTurns ==
  \E p \in Turns :
    \/ TurnBegin(p)
    \/ TurnEnsure(p)
    \/ TurnBind(p)
    \/ TurnRespond(p)
    \/ TurnPendingIntent(p)
    \/ TurnQuery(p)

SpecTurns == InitTurns /\ [][NextTurns]_vars

RECURSIVE RunSerially(_, _, _)
\* the sessions and customers that the turns of order, handled one after
\* another from the sessions S and the customers cl, may leave
RunSerially(S, cl, order) ==
  IF order = << >> THEN {[SESSION_CTX |-> S, clientes |-> cl]}
  ELSE UNION {RunSerially(o.SESSION_CTX, o.clientes, Tail(order)) :
                o \in handle_agent(S, cl, procs[Head(order)].sid, procs[Head(order)].an)}

\* the orders in which the turns may be serialized
Orders == {f \in [Turns -> Turns] : \A p, q \in Turns : f[p] = f[q] => p = q}

\* C13: concurrent turns of one session do not interleave their reads and
\* writes of the context: once all of them have returned, the session
\* contexts (customer reference and id, pending month and intent) are ones
\* that the same turns leave when handled one after another in some order.
C13_TurnsSerialized ==
  (last.op = "turns" /\ \A p \in Turns : procs[p].pc = "done") =>
    \E order \in Orders :
      [SESSION_CTX |-> SESSION_CTX, clientes |-> clientes]
        \in RunSerially(last.SESSION_CTX, last.clientes, order)


(***************************************************************************)
(* Concurrent calls of ensure_cliente (app/db/queries.py), each in its own *)
(* database session: the lookup, the INSERT with its commit, the re-read.  *)
(* The schema of clientes is not in the repository: whether the table has  *)
(* a unique key on the reference is fixed when the service starts.         *)
(***************************************************************************)
Callers == 1..NumCallers

\* the references of first contact: a tax id in both separator styles, and
\* an email
CallerRefs == {Spelling["cuitSep"], Spelling["cuitRaw"], Spelling["mail"]}

\* ref = (cliente_ref or "").strip().lower()
NormRef(cliente_ref) == Strip(ToLower(cliente_ref))

\* the rows that the SELECT of ensure_cliente matches for a reference
MatchingRows(cl, cliente_ref) ==
  IF _is_email(NormRef(cliente_ref)) THEN EmailRows(cl, NormRef(cliente_ref))
  ELSE CuitRows(cl, _only_digits(NormRef(cliente_ref)))

\* the record that the INSERT of ensure_cliente adds for a reference
Placeholder(cliente_ref) ==
  LET ref == NormRef(cliente_ref)
      d == _only_digits(ref)
  IN IF _is_email(ref) THEN [cuit |-> None, email |-> Some(ref)]
     ELSE [cuit |-> Some(SubSeq(d, 1, 2) \o <<"-">> \o SubSeq(d, 3, 10) \o <<"-">>
                           \o SubSeq(d, 11, Len(d))),
           email |-> None]

\* the first SELECT: a row found is returned, any of them (LIMIT 1 without
\* ORDER BY)
EnsureLookup(p) ==
  LET rows == MatchingRows(clientes, procs[p].ref)
  IN /\ procs[p].pc = "lookup"
     /\ IF rows = {}
        THEN procs' = [procs EXCEPT ![p].pc = "insert"]
        ELSE \E i \in rows : procs' = [procs EXCEPT ![p].pc = "done", ![p].id = Some(i)]
     /\ UNCHANGED <<now, dbVars, SESSION_CTX, last>>

\* the INSERT and db.commit(); under a unique key a second record of the
\* reference is refused and the error is not caught
EnsureInsert(p) ==
  /\ procs[p].pc = "insert"
  /\ IF last.unique /\ MatchingRows(clientes, procs[p].ref) # {}
     THEN /\ procs' = [procs EXCEPT ![p].pc = "done", ![p].raised = Some("IntegrityError")]
          /\ UNCHANGED clientes
     ELSE /\ clientes' = Append(clientes, Placeholder(procs[p].ref))
          /\ procs' = [procs EXCEPT ![p].pc = "reread"]
  /\ UNCHANGED <<now, usuarios_cliente, whatsapp_identity, whatsapp_otp,
                 whatsapp_message_log, wa_processed_messages, SESSION_CTX, last>>

\* the second SELECT, ORDER BY id_cliente DESC LIMIT 1
EnsureReread(p) ==
  /\ procs[p].pc = "reread"
  /\ procs' = [procs EXCEPT ![p].pc = "done",
                            ![p].id = Some(Max(MatchingRows(clientes, procs[p].ref)))]
  /\ UNCHANGED <<now, dbVars, SESSION_CTX, last>>

InitEnsure ==
  /\ now = 0
  /\ usuarios_cliente = {}
  /\ whatsapp_identity = << >>
  /\ whatsapp_otp = << >>
  /\ whatsapp_message_log = {}
  /\ wa_processed_messages = {}
  /\ clientes = << >>
  /\ SESSION_CTX = << >>
  /\ procs \in [Callers -> {[ref |-> r, pc |-> "lookup", id |-> None, raised |-> None] :
                              r \in CallerRefs}]
  /\ last \in {[op |-> "ensure", unique |-> u] : u \in BOOLEAN}

NextEnsure ==
  \E p \in Callers :
    \/ EnsureLookup(p)
    \/ EnsureInsert(p)
    \/ EnsureReread(p)

SpecEnsure == InitEnsure /\ [][NextEnsure]_vars

\* C14: when concurrent calls of ensure_cliente make first contact, then
\* once all have returned there is exactly one customer record for the
\* reference of each call, and each call has returned the id of that record.
C14_OneRecordPerReference ==
  (last.op = "ensure" /\ \A p \in Callers : procs[p].pc = "done") =>
    \A p \in Callers :
      /\ Cardinality(MatchingRows(clientes, procs[p].ref)) = 1
      /\ procs[p].raised = None
      /\ procs[p].id # None
      /\ Get(procs[p].id) \in MatchingRows(clientes, procs[p].ref)

(***************************************************************************)
(* Calls of ensure_cliente one after another, as the turns of different    *)
(* sessions make them.                                                     *)
(***************************************************************************)
\* the references the callers pass: a tax id in both separator styles, and
\* emails in two letter cases
ResolveRefs ==
  {Spelling["cuitSep"], Spelling["cuitRaw"], Spelling["mail"], Spelling["Mail"],
   Spelling["mail2"]}

\* The customers the back office registered before: none, one with the tax
\* id stored without separators, or one with the email stored in capitals.
RegisteredClientes ==
  {<< >>,
   <<[cuit |-> Some(Spelling["cuitRaw"]), email |-> None]>>,
   <<[cuit |-> None, email |-> Some(Spelling["Mail"])]>>}

Resolve(cliente_ref) ==
  \E e \in ensure_cliente(clientes, cliente_ref) :
    /\ Len(e.clientes) <= MaxClientes
    /\ clientes' = e.clientes
    /\ last' = [op |-> "resolve", ref |-> cliente_ref, id |-> e.id, raised |-> e.raised]
    /\ UNCHANGED <<now, usuarios_cliente, whatsapp_identity, whatsapp_otp,
                   whatsapp_message_log, wa_processed_messages, SESSION_CTX, procs>>

InitResolve ==
  /\ now = 0
  /\ usuarios_cliente = {}
  /\ whatsapp_identity = << >>
  /\ whatsapp_otp = << >>
  /\ whatsapp_message_log = {}
  /\ wa_processed_messages = {}
  /\ clientes \in RegisteredClientes
  /\ SESSION_CTX = << >>
  /\ procs = << >>
  /\ last = NoRequest

NextResolve == \E cliente_ref \in ResolveRefs : Resolve(cliente_ref)

SpecResolve == InitResolve /\ [][NextResolve]_vars

\* the customer record row is the one a reference denotes: the same email
\* whatever the letter case, or the same eleven digits whatever the
\* separators
Denotes(row, cliente_ref) ==
  \/ row.email # None /\ ToLower(Get(row.email)) = ToLower(cliente_ref)
  \/ row.cuit # None /\ _only_digits(Get(row.cuit)) = _only_digits(cliente_ref)
                     /\ Len(_only_digits(cliente_ref)) = 11

Denoted(cl, cliente_ref) == {i \in 1..Len(cl) : Denotes(cl[i], cliente_ref)}

\* C15: a call of ensure_cliente with a reference that denotes a customer on
\* record inserts nothing and, unless storage fails, returns the id of that
\* record; a call with a reference that denotes none inserts at most one
\* record, which the reference denotes, and returns its id; and no reference
\* ever denotes two records, so every later call in any spelling of the
\* reference returns the same id.
C15_EnsureIdempotent ==
  [][last'.op = "resolve" =>
       LET known == Denoted(clientes, last'.ref)
       IN /\ known # {} =>
               /\ clientes' = clientes
               /\ last'.raised = None => last'.id # None /\ Get(last'.id) \in known
          /\ known = {} =>
               /\ \/ clientes' = clientes /\ last'.raised # None
                  \/ /\ Len(clientes') = Len(clientes) + 1
                     /\ SubSeq(clientes', 1, Len(clientes)) = clientes
                     /\ Denotes(clientes'[Len(clientes')], last'.ref)
               /\ last'.raised = None => last'.id = Some(Len(clientes) + 1)
          /\ last'.raised \in {None, StorageFailure}
          /\ \A r \in ResolveRefs : Cardinality(Denoted(clientes', r)) <= 1]_vars

\* a tax id written without separators resolved, without an insert, to the
\* placeholder record that an earlier call created for it
C15_Witness ==
  /\ last.op = "resolve"
  /\ last.ref = Spelling["cuitRaw"]
  /\ last.raised = None
  /\ \E i \in 1..Len(clientes) :
       /\ last.id = Some(i)
       /\ clientes[i].cuit = Some(Spelling["cuitSep"])
  /\ \E j \in 1..Len(clientes) : clientes[j].email = Some(Spelling["mail"])

(***************************************************************************)
(* The functions of the message text, applied to the texts of a            *)
(* vocabulary: parse_periodo_es and the literal fast path of handle_agent, *)
(* _add_months, and _detect_intent_rules on the lower-cased message.  A     *)
(* run takes one input, held in procs, and applies the function to it.     *)
(***************************************************************************)
ParserWords ==
  {"dic", "Dic", "mayo", "sept", "de", "y2025", "p202512", "este", "mes", "pasado"}

\* longer texts: a month, a literal or a year beside a relative phrase
ParserPhrases ==
  {<<"dic", "este", "mes">>, <<"mes", "pasado", "mayo">>, <<"p202512", "este", "mes">>,
   <<"mes", "que", "viene">>, <<"dic", "de", "y2025">>, <<"p202512", "dic", "y2025">>,
   <<"iva", "de", "Dic">>}

ParserTexts == WordSeqs(ParserWords, MaxMsgLen) \cup ParserPhrases

ParseInputs == {[op |-> "parse", ws |-> ws, today |-> today] :
                  ws \in ParserTexts, today \in Calendar}

Parse ==
  /\ procs.op = "parse"
  /\ last = NoRequest
  /\ last' = [op |-> "parse", ws |-> procs.ws, today |-> procs.today,
              out |-> parse_periodo_es(Join(procs.ws), procs.today),
              an |-> Analyse(Join(procs.ws), procs.today)]
  /\ UNCHANGED <<now, dbVars, SESSION_CTX, procs>>

\* the years and the steps _add_months is applied to
Years == {1, 1999, 2000, 2025, 9999}

Deltas == {-12, -1, 0, 1, 13}

AddMonthsInputs == {[op |-> "add_months", y |-> y, m |-> m, delta |-> delta] :
                      y \in Years, m \in 1..12, delta \in Deltas}

AddMonths ==
  /\ procs.op = "add_months"
  /\ last = NoRequest
  /\ last' = [op |-> "add_months", y |-> procs.y, m |-> procs.m, delta |-> procs.delta,
              out |-> _add_months(procs.y, procs.m, procs.delta)]
  /\ UNCHANGED <<now, dbVars, SESSION_CTX, procs>>

\* one keyword of each category of the classifier, in both letter cases for
\* one of them, and a word of no category
IntentWords ==
  {"monotributo", "vence", "ventas", "compras", "balance", "iva", "IVA", "ddjj", "hola"}

ClassifyInputs == {[op |-> "classify", ws |-> ws] : ws \in WordSeqs(IntentWords, MaxMsgLen)}

Classify ==
  /\ procs.op = "classify"
  /\ last = NoRequest
  /\ last' = [op |-> "classify", ws |-> procs.ws,
              out |-> _detect_intent_rules(Strip(ToLower(Strip(Join(procs.ws)))))]
  /\ UNCHANGED <<now, dbVars, SESSION_CTX, procs>>

InitText ==
  /\ now = 0
  /\ usuarios_cliente = {}
  /\ whatsapp_identity = << >>
  /\ whatsapp_otp = << >>
  /\ whatsapp_message_log = {}
  /\ wa_processed_messages = {}
  /\ clientes = << >>
  /\ SESSION_CTX = << >>
  /\ procs \in ParseInputs \cup AddMonthsInputs \cup ClassifyInputs
  /\ last = NoRequest

NextText == Parse \/ AddMonths \/ Classify

SpecText == InitText /\ [][NextText]_vars

\* C16: the result of parse_periodo_es has one of three shapes: a period
\* alone; no period, with a clarification and a pending month in 1..12; or
\* nothing at all.
C16_ParseShapes ==
  last.op = "parse" =>
    LET o == last.out
    IN \/ o.periodo # None /\ o.error = None /\ o.pending_month = None
       \/ /\ o.periodo = None /\ o.error # None /\ o.pending_month # None
          /\ Get(o.pending_month) \in 1..12
       \/ o.periodo = None /\ o.error = None /\ o.pending_month = None

\* a text with a month and no year was parsed into the second shape
C16_Witness ==
  /\ last.op = "parse"
  /\ last.ws = <<"sept", "mes">>
  /\ last.out.periodo = None
  /\ last.out.pending_month = Some(9)

\* what the words of a text say, read off the words alone
LiteralWords == {"p202512"}

YearWords == {"y2025"}

MonthOfWord == [dic |-> 12, Dic |-> 12, mayo |-> 5, sept |-> 9]

MonthIndexes(ws) == {i \in 1..Len(ws) : ws[i] \in DOMAIN MonthOfWord}

HasLiteral(ws) == \E i \in 1..Len(ws) : ws[i] \in LiteralWords

MonthThenYear(ws) ==
  \E i \in MonthIndexes(ws) :
    \/ i + 1 <= Len(ws) /\ ws[i + 1] \in YearWords
    \/ i + 2 <= Len(ws) /\ ws[i + 1] = "de" /\ ws[i + 2] \in YearWords

\* C17: for a text that contains a literal YYYY-MM token, the parser (and
\* the fast path of handle_agent) returns that token as the period, with no
\* clarification and no pending month, whatever month name, year or
\* relative phrase the text also contains.
C17_LiteralWins ==
  last.op = "parse" /\ HasLiteral(last.ws) =>
    /\ last.out = [periodo |-> Some(Spelling["p202512"]), error |-> None,
                   pending_month |-> None]
    /\ last.an.periodo = Some(Spelling["p202512"])
    /\ last.an.periodo_error = None
    /\ last.an.pending_month = None

\* a literal beside a month name with its year resolved to the literal
C17_Witness ==
  /\ last.op = "parse"
  /\ last.ws = <<"p202512", "mayo", "y2025">> \/ last.ws = <<"p202512", "dic", "y2025">>
  /\ last.out.periodo = Some(Spelling["p202512"])

\* C18: for a text with a month name or abbreviation, no literal YYYY-MM and
\* no month name followed by a year, the parser returns no period, the
\* clarification built from the first month word of the text as written in
\* lower case, and that month's number as the pending month, also when a
\* relative phrase is in the text.
C18_BareMonthAsksYear ==
  /\ last.op = "parse"
  /\ MonthIndexes(last.ws) # {}
  /\ ~HasLiteral(last.ws)
  /\ ~MonthThenYear(last.ws)
  => LET w == last.ws[Min(MonthIndexes(last.ws))]
     IN /\ last.out.periodo = None
        /\ last.out.error = Some([mes_txt |-> ToLower(Spelling[w]), mes |-> MonthOfWord[w]])
        /\ last.out.pending_month = Some(MonthOfWord[w])

\* a month beside the phrase "este mes" was answered with the clarification
C18_Witness ==
  /\ last.op = "parse"
  /\ last.ws = <<"dic", "este", "mes">>
  /\ last.out.pending_month = Some(12)
  /\ last.out.periodo = None

\* C19: _add_months by one month back or forth returns a month in 1..12 and
\* the right year: January less one is December of the year before,
\* December plus one is January of the year after, otherwise the year stays
\* and the month moves by one; so "mes pasado" read in January 2025 is
\* 2024-12 and "mes que viene" read in December 2025 is 2026-01.
C19_MonthWraparound ==
  /\ last.op = "add_months" /\ last.delta \in {-1, 1} =>
       /\ last.out[2] \in 1..12
       /\ last.out = IF last.delta = -1 /\ last.m = 1 THEN <<last.y - 1, 12>>
                     ELSE IF last.delta = 1 /\ last.m = 12 THEN <<last.y + 1, 1>>
                     ELSE <<last.y, last.m + last.delta>>
  /\ last.op = "parse" /\ last.ws = <<"mes", "pasado">> /\ last.today = <<2025, 1>> =>
       last.out.periodo = Some(<<"2", "0", "2", "4", "-", "1", "2">>)
  /\ last.op = "parse" /\ last.ws = <<"mes", "que", "viene">> /\ last.today = <<2025, 12>> =>
       last.out.periodo = Some(<<"2", "0", "2", "6", "-", "0", "1">>)

\* one month back from January
C19_Witness ==
  /\ last.op = "add_months"
  /\ last.y = 2025 /\ last.m = 1 /\ last.delta = -1
  /\ last.out = <<2024, 12>>

\* the category of each keyword of the vocabulary, in the order of the
\* classifier, and the intent of each category
CategoryOfWord ==
  [monotributo |-> 1, vence |-> 2, ventas |-> 3, compras |-> 4, balance |-> 5,
   iva |-> 6, IVA |-> 6, ddjj |-> 7, hola |-> 8]

IntentOfCategory ==
  <<"situacion_fiscal", "vencimientos_proximos", "ventas_resumen_periodo",
    "compras_resumen_periodo", "resultado_periodo", "iva_resumen_periodo",
    "documentos", "unknown">>

\* C20: the classifier returns the intent of the first category, in the
\* order fiscal status, due dates, sales, purchases, result, iva, documents,
\* of which the message holds a keyword, and unknown when it holds none.
C20_IntentPriority ==
  last.op = "classify" =>
    last.out = IntentOfCategory[Min({CategoryOfWord[last.ws[i]] : i \in 1..Len(last.ws)}
                                      \cup {8})]

\* a message with iva and a fiscal-status keyword was classified
C20_Witness ==
  /\ last.op = "classify"
  /\ last.ws = <<"IVA", "monotributo">>
  /\ last.out = "situacion_fiscal"


(***************************************************************************)
(* POST /agent and POST /wa/agent side by side: both endpoints are served  *)
(* by one process and share the dict SESSION_CTX (app/core/session.py).    *)
(* In this specification procs is the set of the session ids that          *)
(* handle_whatsapp created.                                                *)
(***************************************************************************)
\* the session ids a client of POST /agent may supply: any string, the one
\* the gateway builds for the sender's number included
SharedSessions == AgentSessions \cup {WaSession(Phone)}

SharedWords == {"iva", "cuit", "mail"}

SharedRequests == Requests(SharedWords)

\* the messages of the sender: the ones of the gate and one that asks for
\* the due dates and carries, after the label cuit, the reference of another
\* customer
ChannelRequests ==
  WaRequests
    \cup {[text |-> Join(ws), an |-> Analyse(Join(ws), today)] :
            ws \in {<<"vence", "cuit", "mail">>}, today \in Calendar}

\* a delivery through the gateway, without a message id
ChannelDeliver(from_number, req) ==
  \E out \in handle_whatsapp(Database, SESSION_CTX, from_number, req, None, now) :
    /\ OtpEvents(out.whatsapp_otp) <= MaxOtpEvents
    /\ whatsapp_message_log' = out.whatsapp_message_log
    /\ whatsapp_identity' = out.whatsapp_identity
    /\ whatsapp_otp' = out.whatsapp_otp
    /\ SESSION_CTX' = out.SESSION_CTX
    /\ clientes' = out.clientes
    /\ procs' = procs \cup (DOMAIN out.SESSION_CTX \ DOMAIN SESSION_CTX)
    /\ last' = [op |-> "wa", wa_id |-> _digits_only(from_number),
                text |-> req.text, reply |-> out.reply, user |-> out.user,
                forwarded |-> out.forwarded, queries |-> out.queries,
                raised |-> out.raised]
    /\ UNCHANGED <<now, usuarios_cliente, wa_processed_messages>>

InitShared ==
  /\ now = 0
  /\ usuarios_cliente = {WhitelistRow(1, 1, Phone, 1)}
  /\ whatsapp_identity = << >>
  /\ whatsapp_otp = << >>
  /\ whatsapp_message_log = {}
  /\ wa_processed_messages = {}
  /\ clientes = <<[cuit |-> Some(Spelling["cuitSep"]), email |-> None]>>
  /\ SESSION_CTX = << >>
  /\ procs = {}
  /\ last = NoRequest

NextShared ==
  \/ \E req \in ChannelRequests : ChannelDeliver(PlusPhone, req)
  \/ \E sid \in SharedSessions, req \in SharedRequests : AgentTurn(sid, req)

SpecShared == InitShared /\ [][NextShared]_vars

\* C21: no request to the direct agent endpoint, whatever session id it
\* carries, reads or modifies the context of a session that handle_whatsapp
\* created: a turn of POST /agent never runs on such a session and leaves
\* the context of every such session as it was.
C21_ChannelSessionsIsolated ==
  [][last'.op = "agent" =>
       \A ws \in procs : last'.sid # ws /\ SESSION_CTX'[ws] = SESSION_CTX[ws]]_vars


(***************************************************************************)
(* Failures of the storage inside a turn of the dialogue engine.           *)
(***************************************************************************)
\* the outcomes handle_agent has for the turn recorded in last'
TurnOutcomes == handle_agent(SESSION_CTX, clientes, last'.sid, last'.req.an)

\* C22: a storage failure raised by ensure_cliente or by a business query of
\* handle_agent is not caught: the turn ends with the failure and without an
\* AgentResponse, and this is so for the resolution of the customer and for
\* each query a turn executes: whenever a turn resolved the customer or ran
\* queries and answered, each of these calls has the outcome in which it
\* fails, and that outcome carries the failure and no response.
C22_StorageFailurePropagates ==
  [][last'.op = "agent" =>
       /\ last'.raised = StorageFailure => last'.resp = None
       /\ (last'.raised = None /\ (last'.ensured \/ last'.queries # << >>)) =>
            LET outs == TurnOutcomes
            IN /\ last'.ensured =>
                    \E f \in outs :
                      f.raised = StorageFailure /\ f.resp = None /\ f.queries = << >>
               /\ \A n \in 1..Len(last'.queries) :
                    \E f \in outs :
                      /\ f.raised = StorageFailure /\ f.resp = None
                      /\ f.queries = SubSeq(last'.queries, 1, n)]_vars

\* the customer is resolved and the query of the turn then fails
C22_Witness ==
  /\ last.op = "agent"
  /\ last.raised = StorageFailure
  /\ last.ensured
  /\ last.queries # << >>
  /\ last.resp = None


\* C23: every turn that hits no storage fault ends with an AgentResponse,
\* whatever the message and the state of the session; a reference that is
\* neither an email nor a tax id of 11 digits is answered, not raised.
C23_EveryTurnReplies ==
  [][(last'.op = "agent" /\ last'.raised # StorageFailure) =>
       (last'.resp # None /\ last'.raised = None)]_vars


(***************************************************************************)
(* The gate over the life of the codes of one authorised sender:           *)
(* deliveries to POST /wa/agent handled one after another, and the clock.  *)
(* The code table starts with no code or with one code issued at time 0    *)
(* on which wrong submissions have been counted.                           *)
(***************************************************************************)
\* the codes the gate issues to the sender within a behaviour
MaxCodes == 2

GateMessageIds == {None, Some(<<"m", "1">>)}

GateDeliver(req, message_id) ==
  \E out \in handle_whatsapp(Database, SESSION_CTX, PlusPhone, req, message_id, now) :
    /\ Len(out.whatsapp_otp) <= MaxCodes
    /\ whatsapp_message_log' = out.whatsapp_message_log
    /\ whatsapp_identity' = out.whatsapp_identity
    /\ whatsapp_otp' = out.whatsapp_otp
    /\ SESSION_CTX' = out.SESSION_CTX
    /\ clientes' = out.clientes
    /\ last' = [op |-> "wa", wa_id |-> _digits_only(PlusPhone),
                message_id |-> message_id, text |-> req.text,
                reply |-> out.reply, code |-> out.code, lookup |-> out.lookup,
                needs |-> out.needs, forwarded |-> out.forwarded,
                queries |-> out.queries, raised |-> out.raised]
    /\ UNCHANGED <<now, usuarios_cliente, wa_processed_messages, procs>>

InitGate ==
  /\ now = 0
  /\ usuarios_cliente = {WhitelistRow(1, 1, Phone, 1)}
  /\ whatsapp_identity = _upsert_identity(<< >>, Phone, 1, 1)
  /\ \/ whatsapp_otp = << >>
     \/ \E n \in {0, AttemptCap - 1, AttemptCap} :
          whatsapp_otp =
            <<[_create_otp(<< >>, Phone, Spelling["code1"], 0)[1] EXCEPT !.attempts = n]>>
  /\ whatsapp_message_log = {}
  /\ wa_processed_messages = {}
  /\ clientes = <<[cuit |-> Some(Spelling["cuitSep"]), email |-> None]>>
  /\ SESSION_CTX = << >>
  /\ procs = << >>
  /\ last = NoRequest

NextGate ==
  \/ \E req \in WaRequests, message_id \in GateMessageIds : GateDeliver(req, message_id)
  \/ \E t \in Instants : Tick(t)

SpecGate == InitGate /\ [][NextGate]_vars


\* the sender of the gate's deliveries needs verification now
GateClosed == _needs_reverify(_get_identity(whatsapp_identity, Phone), now)

\* the code row _create_otp inserts at time t for the code drawn
FreshRow(wa_id, code, t) ==
  [wa_id |-> wa_id, code_hash |-> _hash_otp(code), expires_at |-> t + OtpTtl,
   attempts |-> 0, used_at |-> None]

\* C24: exhaustion or expiry of a code never traps the authorised sender.
\* Whenever verification is required (the latest code expired, consumed, at
\* the attempt cap, or none issued) a message that is not a code is answered
\* with a fresh code, valid from that moment; the submission of the digits of
\* a valid latest code before it expires is answered with the verification,
\* after which the sender needs none; and every turn at the closed gate ends
\* with one of the three replies of the gate, never with a failure.
C24_NeverTrapped ==
  [][(last'.op = "wa" /\ last'.reply # "ack" /\ GateClosed) =>
       /\ last'.raised = None
       /\ last'.reply \in {"otp_sent", "verified", "otp_failed"}
       /\ OtpCode(last'.text) = None =>
            /\ last'.reply = "otp_sent"
            /\ last'.code # None
            /\ whatsapp_otp' = Append(whatsapp_otp, FreshRow(Phone, Get(last'.code), now))
            /\ LatestValid(whatsapp_otp', Phone, now)
       /\ (OtpCode(last'.text) # None /\ LatestValid(whatsapp_otp, Phone, now)
             /\ SubmittedMatches) =>
            /\ last'.reply = "verified"
            /\ ~_needs_reverify(_get_identity(whatsapp_identity', Phone), now)]_vars

\* the first code reached the attempt cap, a second one was issued and its
\* submission verified the sender
C24_Witness ==
  /\ last.op = "wa"
  /\ last.reply = "verified"
  /\ Len(whatsapp_otp) = 2
  /\ whatsapp_otp[1].attempts = AttemptCap
  /\ whatsapp_otp[1].used_at = None
  /\ whatsapp_otp[2].used_at = Some(now)


\* the latest code of wa_id at time t is at the attempt cap, consumed or
\* expired
LatestSpent(otp, wa_id, t) ==
  LET id == LatestOtp(otp, wa_id)
  IN /\ id # 0
     /\ \/ otp[id].attempts >= AttemptCap
        \/ otp[id].used_at # None
        \/ otp[id].expires_at < t

\* C25: for validations handled one after another, the submission of the
\* very digits of a code that is at the cap of 5 attempts, consumed or
\* expired is rejected, and the rejection changes no row of the code table
\* (attempts and used_at stay as they were) and verifies nobody; so the
\* attempts counted on a code never exceed 5.
C25_SpentCodeRejected ==
  [][last'.op = "wa" =>
       /\ (SubmitsCode /\ LatestSpent(whatsapp_otp, last'.wa_id, now) /\ SubmittedMatches) =>
            /\ last'.reply = "otp_failed"
            /\ whatsapp_otp' = whatsapp_otp
            /\ whatsapp_identity'[last'.wa_id].verified_at
                 = whatsapp_identity[last'.wa_id].verified_at
       /\ \A i \in 1..Len(whatsapp_otp') : whatsapp_otp'[i].attempts <= AttemptCap]_vars

\* the digits of an unconsumed, unexpired code at the cap were submitted and
\* rejected
C25_Witness ==
  /\ last.op = "wa"
  /\ last.reply = "otp_failed"
  /\ LatestOtp(whatsapp_otp, last.wa_id) # 0
  /\ LET row == whatsapp_otp[LatestOtp(whatsapp_otp, last.wa_id)]
     IN /\ row.attempts = AttemptCap
        /\ row.used_at = None
        /\ row.expires_at >= now
        /\ row.code_hash = _hash_otp(Get(OtpCode(last.text)))


\* the comparisons of a submitted code with the hash of row id: the ones
\* counted on the row and the ones of the validators that have compared and
\* not yet committed their count
Comparisons(id) ==
  whatsapp_otp[id].attempts
    + Cardinality({p \in Validators :
                     procs[p].id = id /\ procs[p].pc \in {"incr", "consume", "commit"}})

\* C26: under concurrent validations of one sender, in every interleaving,
\* no code is compared with submitted digits more than 5 times and the
\* attempts counted on a code never exceed 5.
C26_CapUnderConcurrency ==
  \A id \in 1..Len(whatsapp_otp) :
    Comparisons(id) <= AttemptCap /\ whatsapp_otp[id].attempts <= AttemptCap


\* the rows of wa_id older than its latest row that hold the code
EarlierHolding(otp, wa_id, code) ==
  {j \in 1..(LatestOtp(otp, wa_id) - 1) :
     otp[j].wa_id = wa_id /\ otp[j].code_hash = _hash_otp(code)}

\* the next request submits, at the closed gate, digits that an earlier code
\* of the sender holds and the latest code does not
SubmitsEarlierCode ==
  /\ SubmitsCode
  /\ LatestOtp(whatsapp_otp, last'.wa_id) # 0
  /\ ~SubmittedMatches
  /\ EarlierHolding(whatsapp_otp, last'.wa_id, Get(OtpCode(last'.text))) # {}

\* C27 as stated, in the case it singles out: the submission of an earlier
\* code that is unexpired and unconsumed fails, is counted as an attempt
\* against the latest code and leaves every other row unchanged.
C27_EarlierCodeCounted ==
  [][(/\ SubmitsEarlierCode
      /\ \E j \in EarlierHolding(whatsapp_otp, last'.wa_id, Get(OtpCode(last'.text))) :
            whatsapp_otp[j].used_at = None /\ whatsapp_otp[j].expires_at >= now) =>
       LET id == LatestOtp(whatsapp_otp, last'.wa_id)
       IN /\ last'.reply = "otp_failed"
          /\ whatsapp_otp' = [whatsapp_otp EXCEPT ![id].attempts = @ + 1]]_vars

\* C27: when several codes have been issued for one address only the latest
\* can validate.  The submission of an earlier code, unexpired and unconsumed
\* or not, fails and verifies nobody; it is counted as an attempt against the
\* latest code when that code is itself unconsumed, unexpired and below the
\* cap, and is not counted at all otherwise; the rows of the earlier codes
\* are unchanged in both cases.
C27_OnlyLatestValidates ==
  [][SubmitsEarlierCode =>
       LET id == LatestOtp(whatsapp_otp, last'.wa_id)
       IN /\ last'.reply = "otp_failed"
          /\ whatsapp_otp' =
               (IF LatestValid(whatsapp_otp, last'.wa_id, now)
                THEN [whatsapp_otp EXCEPT ![id].attempts = @ + 1]
                ELSE whatsapp_otp)
          /\ whatsapp_identity'[last'.wa_id].verified_at
               = whatsapp_identity[last'.wa_id].verified_at]_vars

\* the first code, unexpired, unconsumed and never tried, was submitted
\* after a second one was issued: it failed and was counted on the second
C27_Witness ==
  /\ last.op = "wa"
  /\ last.reply = "otp_failed"
  /\ Len(whatsapp_otp) = 2
  /\ whatsapp_otp[1].code_hash = _hash_otp(Get(OtpCode(last.text)))
  /\ whatsapp_otp[1].attempts = 0
  /\ whatsapp_otp[1].used_at = None
  /\ whatsapp_otp[1].expires_at >= now
  /\ whatsapp_otp[2].code_hash # whatsapp_otp[1].code_hash
  /\ whatsapp_otp[2].attempts = 1


\* the verification on record for wa_id in the table ident, if any
VerifiedAt(ident, wa_id) ==
  IF wa_id \in DOMAIN ident THEN ident[wa_id].verified_at ELSE None

\* C28: verified_at of an identity changes only in a turn of its sender in
\* which the submitted code validates (it matches the latest code, which is
\* unconsumed, unexpired and below the cap), and it becomes the time of that
\* turn; the dedupe gate, the whitelist lookup, the upsert of the identity,
\* the issue of a code, a failed validation, a forwarded message and the
\* passing of time leave it as it was.
C28_VerifiedOnlyByValidation ==
  [][\A w \in DOMAIN whatsapp_identity' :
       VerifiedAt(whatsapp_identity', w) # VerifiedAt(whatsapp_identity, w) =>
         /\ last'.op = "wa"
         /\ last'.wa_id = w
         /\ last'.reply = "verified"
         /\ SubmitsCode
         /\ LatestValid(whatsapp_otp, w, now)
         /\ SubmittedMatches
         /\ VerifiedAt(whatsapp_identity', w) = Some(now)]_vars

\* a sender whose verification had grown stale failed a validation, on a
\* delivery that passed the dedupe gate, and kept the old verification
C28_Witness ==
  /\ last.op = "wa"
  /\ last.reply = "otp_failed"
  /\ ~Falsy(last.message_id)
  /\ VerifiedAt(whatsapp_identity, last.wa_id) # None
  /\ Get(VerifiedAt(whatsapp_identity, last.wa_id)) + ReverifyWindow < now


GateReplies == {"otp_sent", "verified", "otp_failed"}

\* C29: a delivery that passes the dedupe gate and the whitelist is asked for
\* verification exactly when its sender has no verification on record or one
\* older than the re-verification window.  A sender whose verification is
\* older than the window is gated again on the next message: a code is
\* issued or a submitted code is validated, nothing is forwarded, no query
\* runs and no session is touched.  A sender verified within the window is
\* forwarded to the agent: no code is issued and none is validated.
C29_StalenessGate ==
  [][(last'.op = "wa" /\ last'.lookup) =>
       LET fresh == FreshlyVerified(whatsapp_identity, last'.wa_id, now)
       IN /\ last'.needs = Some(~fresh)
          /\ ~fresh =>
               /\ last'.reply \in GateReplies
               /\ ~last'.forwarded
               /\ last'.queries = << >>
               /\ UNCHANGED <<SESSION_CTX, clientes>>
          /\ fresh =>
               /\ last'.forwarded
               /\ last'.reply \notin GateReplies
               /\ last'.code = None
               /\ UNCHANGED whatsapp_otp]_vars

\* a sender verified more than the window ago sent a business message and
\* was issued a code
C29_Witness ==
  /\ last.op = "wa"
  /\ last.reply = "otp_sent"
  /\ OtpCode(last.text) = None
  /\ VerifiedAt(whatsapp_identity, last.wa_id) # None
  /\ now - Get(VerifiedAt(whatsapp_identity, last.wa_id)) > ReverifyWindow


\* C30: once the context of a session holds a customer id, every later turn
\* of handle_agent on the session runs its queries with that id and does not
\* call ensure_cliente (no customer is looked up or created), also when the
\* message carries another reference: the reference of the message replaces
\* the stored one and the stored id stays.
C30_ResolvedIdSticks ==
  [][(last'.op = "agent" /\ HasCliente(Before)) =>
       LET an == last'.req.an
           ctx == Get(Before)
           after == SESSION_CTX'[last'.sid]
       IN /\ ~last'.ensured
          /\ clientes' = clientes
          /\ \A i \in 1..Len(last'.queries) : last'.queries[i].id_cliente = ctx.id_cliente
          /\ after.id_cliente = ctx.id_cliente
          /\ after.cliente_ref =
               (IF an.cliente_ref # None THEN an.cliente_ref ELSE ctx.cliente_ref)]_vars

\* a session resolved by an email received a message with the tax id of
\* another customer: the query ran with the id of the session
C30_Witness ==
  /\ last.op = "agent"
  /\ HasCliente(last.before)
  /\ Get(last.before).cliente_ref = Some(Spelling["mail"])
  /\ last.req.an.cliente_ref = Some(Spelling["cuitSep"])
  /\ Get(last.before).id_cliente = Some(2)
  /\ CuitRows(clientes, _only_digits(Spelling["cuitSep"])) = {1}
  /\ Len(last.queries) = 1
  /\ last.queries[1].id_cliente = Some(2)
  /\ SESSION_CTX[last.sid].cliente_ref = Some(Spelling["cuitSep"])
  /\ SESSION_CTX[last.sid].id_cliente = Some(2)


C32_FailedDeliveryReprocessed ==
  [][(/\ last.op = "wa"
      /\ ~Falsy(last.message_id)
      /\ last.raised = StorageFailure
      /\ last'.op = "wa"
      /\ last'.message_id = last.message_id
      /\ last'.text = last.text) =>
       (last'.reply # "ack" /\ last'.lookup)]_vars


\* C33: handle_agent answers with the intent identify only when the message
\* of the turn carries a customer reference, the rules find no intent in it
\* and the turn resolves no period, neither from the text nor by joining a
\* bare year with the pending month of the session; the rules themselves
\* never return identify, and the intent of every response is one of
\* ALLOWED_INTENTS.
C33_IdentifyOnlyForBareReference ==
  [][last'.op = "agent" =>
       LET an == last'.req.an
       IN /\ an.intent \in ALLOWED_INTENTS \ {"identify"}
          /\ last'.resp # None =>
               /\ Get(last'.resp).intent \in ALLOWED_INTENTS
               /\ Get(last'.resp).intent = "identify" =>
                    /\ an.cliente_ref # None
                    /\ an.intent = "unknown"
                    /\ an.periodo = None
                    /\ ~(an.year_only # None /\ Before # None
                           /\ Get(Before).pending_month # None)]_vars

\* a message that is a reference alone, in a session that holds a pending
\* month, was answered with the identification
C33_Witness ==
  /\ last.op = "agent"
  /\ last.resp # None
  /\ Get(last.resp).intent = "identify"
  /\ last.before # None
  /\ Get(last.before).pending_month # None
  /\ last.req.an.cliente_ref = Some(Spelling["mail"])


\* the queries that take a period
PeriodQueries == {PeriodQueryOf(intent) : intent \in PeriodIntents}

\* a text of the form YYYY-MM with year 20dd and month 01 to 12
WellFormedPeriodo(p) ==
  /\ Len(p) = 7
  /\ p[1] = "2" /\ p[2] = "0" /\ IsDigit(p[3]) /\ IsDigit(p[4])
  /\ p[5] = "-"
  /\ IsDigit(p[6]) /\ IsDigit(p[7])
  /\ ToInt(SubSeq(p, 6, 7)) \in 1..12

\* C34: every business query of handle_agent is called with a customer id
\* that is not null, and each of the four queries of a period with a period
\* YYYY-MM, year 20dd and month 01 to 12, whether the period is the literal
\* of the message, the result of the parser or the year of the message
\* joined with the pending month of the session.
C34_QueryArguments ==
  [][last'.op = "agent" =>
       \A i \in 1..Len(last'.queries) :
         LET q == last'.queries[i]
         IN /\ q.id_cliente # None
            /\ Get(q.id_cliente) \in 1..Len(clientes')
            /\ q.name \in PeriodQueries =>
                 q.periodo # None /\ WellFormedPeriodo(Get(q.periodo))]_vars

\* a session that held a reference and no id resolved the customer and ran
\* the query of the period literal in one turn
C34_Witness ==
  /\ last.op = "agent"
  /\ last.ensured
  /\ last.raised = None
  /\ last.before # None
  /\ Get(last.before).cliente_ref # None
  /\ Get(last.before).id_cliente = None
  /\ Len(last.queries) = 1
  /\ last.queries[1].name \in PeriodQueries
  /\ last.queries[1].periodo = Some(Spelling["p202512"])


\* C35: for a verified sender of the channel, every business query of the
\* forwarded turn is called with the customer id that the whitelist links to
\* the sender's address when the message arrives, whatever reference the
\* message carries and whatever earlier turns, of the channel or of POST
\* /agent, left in the session; and the session holds that id afterwards.
C35_WhitelistCustomerQueried ==
  [][(last'.op = "wa" /\ last'.forwarded) =>
       LET linked == {r.id_cliente : r \in ActivePairings(usuarios_cliente, last'.wa_id)}
           ws == WaSession(last'.wa_id)
       IN /\ Get(last'.user).id_cliente \in linked
          /\ \A i \in 1..Len(last'.queries) :
               /\ last'.queries[i].id_cliente # None
               /\ Get(last'.queries[i].id_cliente) \in linked
          /\ SESSION_CTX'[ws].id_cliente = Some(Get(last'.user).id_cliente)]_vars

\* the session of the sender held the id of another customer, left by a
\* turn of POST /agent, and the message named that customer's email: the
\* queries ran with the id of the whitelist
C35_Witness ==
  /\ last.op = "wa"
  /\ last.forwarded
  /\ OtpCode(last.text) = None
  /\ Analyse(last.text, <<2025, 1>>).cliente_ref = Some(Spelling["mail"])
  /\ Len(clientes) = 2
  /\ last.queries # << >>
  /\ last.queries[1].id_cliente = Some(1)
  /\ SESSION_CTX[WaSession(last.wa_id)].cliente_ref = Some(Spelling["mail"])
  /\ SESSION_CTX[WaSession(last.wa_id)].id_cliente = Some(1)



\* C36: the pending month and intent leave a session only in the bare-year
\* continuation.  A turn on a session that holds the pair and that is not
\* the continuation keeps the pair, or replaces it by the month and intent
\* of its own clarification; a turn that runs a query on its own period, an
\* identify turn and a turn of an intent that needs no period keep it as it
\* was.  The continuation, whenever it comes, joins its year with the month
\* held and, without a keyword, runs the query of the intent held.
C36_PendingRemovedOnlyByContinuation ==
  [][(last'.op = "agent" /\ Before # None /\ Get(Before).pending_month # None) =>
       LET an == last'.req.an
           ctx == Get(Before)
           after == SESSION_CTX'[last'.sid]
           cont == an.periodo = None /\ an.year_only # None
           kept == /\ after.pending_month = ctx.pending_month
                   /\ after.pending_intent = ctx.pending_intent
           own == /\ an.intent \in PeriodIntents
                  /\ an.pending_month # None
                  /\ after.pending_month = an.pending_month
                  /\ after.pending_intent = Some(an.intent)
       IN /\ cont <=> (after.pending_month = None /\ after.pending_intent = None)
          /\ ~cont => (kept \/ own)
          /\ (an.periodo # None /\ last'.queries # << >>) => kept
          /\ (last'.resp # None /\ Get(last'.resp).intent = "identify") => kept
          /\ (~cont /\ an.intent \notin PeriodIntents) => kept
          /\ (cont /\ last'.resp # None /\ Get(last'.resp).missing = << >>
                /\ an.intent = "unknown" /\ an.cliente_ref = None) =>
               /\ Get(last'.resp).intent = Get(ctx.pending_intent)
               /\ last'.queries # << >>
               /\ \A i \in 1..Len(last'.queries) :
                    last'.queries[i].periodo \in
                      {None, Some(_to_periodo(Get(an.year_only), Get(ctx.pending_month)))}]_vars

\* a session that held december and an intent as pending ran the VAT query
\* of a message with its own period, and holds the pair still
C36_Witness ==
  /\ last.op = "agent"
  /\ HasCliente(last.before)
  /\ Get(last.before).pending_month = Some(12)
  /\ last.req.an.periodo # None
  /\ last.req.an.intent = "iva_resumen_periodo"
  /\ last.raised = None
  /\ Len(last.queries) = 1
  /\ SESSION_CTX[last.sid].pending_month = Some(12)
  /\ SESSION_CTX[last.sid].pending_intent = Get(last.before).pending_intent



\* a reference that ensure_cliente rejects: after trimming and lowering it
\* is empty, or it has no @ and its digits are not 11
InvalidRef(cliente_ref) ==
  LET ref == Strip(ToLower(cliente_ref))
  IN ref = << >> \/ (~_is_email(ref) /\ Len(_only_digits(ref)) # 11)

\* C37: a turn whose message carries a reference that is neither an email
\* nor a tax id of 11 digits leaves that reference stored in the session,
\* also when the turn is aborted; and in a session that holds such a
\* reference and no customer id, every turn whose message brings no valid
\* reference is aborted by the ValueError of ensure_cliente: it returns no
\* response, asks for no identification, runs no query, and the session
\* still holds an invalid reference and no id.
C37_InvalidReferenceSticks ==
  [][last'.op = "agent" =>
       LET an == last'.req.an
           after == SESSION_CTX'[last'.sid]
       IN /\ (an.cliente_ref # None /\ InvalidRef(Get(an.cliente_ref))) =>
               after.cliente_ref = an.cliente_ref
          /\ (/\ Before # None
              /\ Get(Before).id_cliente = None
              /\ Get(Before).cliente_ref # None
              /\ InvalidRef(Get(Get(Before).cliente_ref))
              /\ (an.cliente_ref = None \/ InvalidRef(Get(an.cliente_ref)))) =>
               /\ last'.raised = Some("ValueError")
               /\ last'.resp = None
               /\ last'.queries = << >>
               /\ after.id_cliente = None
               /\ after.cliente_ref # None
               /\ InvalidRef(Get(after.cliente_ref))]_vars

\* a session that held the word after the label cuit as its reference
\* received a message with a keyword and no reference, and the turn was
\* aborted in ensure_cliente
C37_Witness ==
  /\ last.op = "agent"
  /\ last.before # None
  /\ Get(last.before).cliente_ref = Some(Spelling["es"])
  /\ Get(last.before).id_cliente = None
  /\ last.req.an.cliente_ref = None
  /\ last.req.an.intent = "iva_resumen_periodo"
  /\ last.raised = Some("ValueError")
  /\ last.resp = None
  /\ SESSION_CTX[last.sid].cliente_ref = Some(Spelling["es"])



(***************************************************************************)
(* The dedupe gates when storage fails in the insert.  Deliveries of a     *)
(* verified sender arrive one at a time through POST /wa/agent or through  *)
(* the provider's webhook; the INSERT (or the commit) of either gate may   *)
(* raise for a reason other than the unique key.                           *)
(***************************************************************************)
\* an except branch that rolls back and lets the exception go up
ExceptBranch_reraising(store) ==
  [new |-> FALSE, store |-> store, fault |-> TRUE, raised |-> StorageFailure]

\* except Exception: db.rollback(); return False -- the table is as it was
\* and the caller is told that the message is not new
ExceptBranch(store) ==
  [new |-> FALSE, store |-> store, fault |-> TRUE, raised |-> None]

\* _dedupe_message(db, message_id, wa_id) with a storage that may fail: the
\* outcome without a fault, and the one of the except branch when the INSERT
\* is attempted and raises
DedupeGate(log, message_id, wa_id) ==
  LET r == _dedupe_message(log, message_id, wa_id)
  IN {[new |-> r.new, store |-> r.log, fault |-> FALSE, raised |-> None]}
       \cup (IF Falsy(message_id) THEN {} ELSE {ExceptBranch(log)})

\* mark_processed(db, wamid) with a storage that may fail
MarkGate(tab, wamid) ==
  LET r == mark_processed(tab, wamid)
  IN {[new |-> r.new, store |-> r.tab, fault |-> FALSE, raised |-> None]}
       \cup (IF Falsy(wamid) THEN {} ELSE {ExceptBranch(tab)})

FaultMessageIds == {Some(<<"m", "1">>), Some(<<"m", "2">>)}

\* what a delivery that stopped at a gate leaves: the reply, and no lookup
Stopped(tab, log, reply, fault, raised) ==
  [wa_processed_messages |-> tab, out |-> Refuse(Database, SESSION_CTX, log, reply, FALSE, None),
   fault |-> fault, raised |-> raised]

\* handle_whatsapp past a dedupe gate with the outcome dd
PastDedupe(tab, dd, req, message_id, fault) ==
  IF dd.raised # None
  THEN {Stopped(tab, dd.store, "unhandled", fault \/ dd.fault, dd.raised)}
  ELSE IF ~dd.new
  THEN {Stopped(tab, dd.store, "ack", fault \/ dd.fault, None)}
  ELSE {[wa_processed_messages |-> tab, out |-> out, fault |-> fault, raised |-> out.raised]
          : out \in handle_whatsapp(Database, SESSION_CTX, PlusPhone, req, message_id, now)}

\* a delivery by the route: the webhook passes mark_processed first
\* (ycloud.py lines 77-78) and then calls handle_whatsapp with the same id
Hook(route, req, message_id) ==
  IF route = "wa"
  THEN UNION {PastDedupe(wa_processed_messages, dd, req, message_id, FALSE)
                : dd \in DedupeGate(whatsapp_message_log, message_id, Phone)}
  ELSE UNION {
         IF mk.raised # None
         THEN {Stopped(mk.store, whatsapp_message_log, "unhandled", mk.fault, mk.raised)}
         ELSE IF ~mk.new
         THEN {Stopped(mk.store, whatsapp_message_log, "ignored", mk.fault, None)}
         ELSE UNION {PastDedupe(mk.store, dd, req, message_id, mk.fault)
                       : dd \in DedupeGate(whatsapp_message_log, message_id, Phone)}
         : mk \in MarkGate(wa_processed_messages, message_id)}

FaultDeliver(route, req, message_id) ==
  \E h \in Hook(route, req, message_id) :
    /\ wa_processed_messages' = h.wa_processed_messages
    /\ whatsapp_message_log' = h.out.whatsapp_message_log
    /\ whatsapp_identity' = h.out.whatsapp_identity
    /\ whatsapp_otp' = h.out.whatsapp_otp
    /\ SESSION_CTX' = h.out.SESSION_CTX
    /\ clientes' = h.out.clientes
    /\ last' = [op |-> "hook", route |-> route, message_id |-> message_id,
                text |-> req.text, reply |-> h.out.reply, lookup |-> h.out.lookup,
                forwarded |-> h.out.forwarded, fault |-> h.fault, raised |-> h.raised]
    /\ UNCHANGED <<now, usuarios_cliente, procs>>

InitFault ==
  /\ now = 0
  /\ usuarios_cliente = {WhitelistRow(1, 1, Phone, 1)}
  /\ whatsapp_identity = _mark_verified(_upsert_identity(<< >>, Phone, 1, 1), Phone, 0)
  /\ whatsapp_otp = << >>
  /\ whatsapp_message_log = {}
  /\ wa_processed_messages = {}
  /\ clientes = <<[cuit |-> Some(Spelling["cuitSep"]), email |-> None]>>
  /\ SESSION_CTX = << >>
  /\ procs = << >>
  /\ last = NoRequest

NextFault ==
  \E route \in Routes, req \in WaRequests, message_id \in FaultMessageIds :
    FaultDeliver(route, req, message_id)

SpecFault == InitFault /\ [][NextFault]_vars

C39_CapPerCode ==
  [][(last'.op = "wa" /\ last'.reply # "ack" /\ GateClosed) =>
       LET id == LatestOtp(whatsapp_otp, Phone)
           m == OtpCode(last'.text)
       IN /\ m = None =>
               /\ Len(whatsapp_otp') = Len(whatsapp_otp) + 1
               /\ LatestOtp(whatsapp_otp', Phone) = Len(whatsapp_otp')
               /\ whatsapp_otp'[Len(whatsapp_otp')].attempts = 0
               /\ Attempts(whatsapp_otp') = Attempts(whatsapp_otp)
          /\ (/\ m # None
              /\ id # 0
              /\ whatsapp_otp[id].attempts < AttemptCap
              /\ whatsapp_otp[id].used_at = None
              /\ whatsapp_otp[id].expires_at >= now) =>
               /\ whatsapp_otp'[id].attempts = whatsapp_otp[id].attempts + 1
               /\ Attempts(whatsapp_otp') = Attempts(whatsapp_otp) + 1
               /\ last'.reply = (IF whatsapp_otp[id].code_hash = _hash_otp(Get(m))
                                 THEN "verified" ELSE "otp_failed")]_vars

\* the address has had more than 5 submissions compared and counted: 5 on
\* its first code and one more on the code issued after it
C39_Witness ==
  /\ last.op = "wa"
  /\ last.reply = "otp_failed"
  /\ Len(whatsapp_otp) = 2
  /\ whatsapp_otp[1].attempts = AttemptCap
  /\ whatsapp_otp[2].attempts = 1
  /\ Attempts(whatsapp_otp) > AttemptCap
  /\ whatsapp_identity[Phone].verified_at = None



(***************************************************************************)
(* The sender's number passes from one customer to another: deliveries     *)
(* to POST /wa/agent, the clock, and an administrator who replaces the     *)
(* whitelist record of the number by the record of a user of another       *)
(* customer, or puts the first one back.                                   *)
(***************************************************************************)
Relinks == {{WhitelistRow(1, 1, Phone, 1)}, {WhitelistRow(2, 2, Phone, 1)}}

InitRelink ==
  /\ now = 0
  /\ usuarios_cliente = {WhitelistRow(1, 1, Phone, 1)}
  /\ whatsapp_identity = << >>
  /\ whatsapp_otp = << >>
  /\ whatsapp_message_log = {}
  /\ wa_processed_messages = {}
  /\ clientes = <<[cuit |-> Some(Spelling["cuitSep"]), email |-> None]>>
  /\ SESSION_CTX = << >>
  /\ procs = << >>
  /\ last = NoRequest

NextRelink ==
  \/ \E req \in WaRequests : Deliver(PlusPhone, req, None)
  \/ \E rows \in Relinks : Administer(rows)
  \/ \E t \in Instants : Tick(t)

SpecRelink == InitRelink /\ [][NextRelink]_vars

\* C40: the verification belongs to the address.  Every delivery of a
\* whitelisted sender writes the user and the customer of the whitelist on
\* the identity of the address and keeps its verifiedAt, which only a
\* successful validation moves; so when the record of a verified address
\* has passed to another customer, the next message within the window is
\* forwarded at once: no code is issued or asked for, the session of the
\* address gets the new customer's id and every query runs with it.
C40_VerificationFollowsAddress ==
  [][(last'.op = "wa" /\ last'.user # None /\ ~Get(last'.user).ambiguous) =>
       LET wa == last'.wa_id
           user == Get(last'.user)
           was == _get_identity(whatsapp_identity, wa)
           is == whatsapp_identity'[wa]
       IN /\ is.id_usuario = user.id_usuario
          /\ is.id_cliente = user.id_cliente
          /\ (was # None /\ last'.reply # "verified") =>
               is.verified_at = Get(was).verified_at
          /\ (/\ was # None
              /\ Get(was).id_cliente # user.id_cliente
              /\ ~_needs_reverify(was, now)) =>
               /\ last'.forwarded
               /\ last'.needs = Some(FALSE)
               /\ last'.code = None
               /\ whatsapp_otp' = whatsapp_otp
               /\ SESSION_CTX'[WaSession(wa)].id_cliente = Some(user.id_cliente)
               /\ \A i \in 1..Len(last'.queries) :
                    last'.queries[i].id_cliente = Some(user.id_cliente)]_vars

\* the address was verified with the only code ever issued, as customer 1;
\* after the whitelist passed it to customer 2, its query ran for customer 2
C40_Witness ==
  /\ last.op = "wa"
  /\ last.forwarded
  /\ usuarios_cliente = {WhitelistRow(2, 2, Phone, 1)}
  /\ Len(whatsapp_otp) = 1
  /\ whatsapp_otp[1].used_at # None
  /\ whatsapp_identity[Phone].id_cliente = 2
  /\ whatsapp_identity[Phone].verified_at = whatsapp_otp[1].used_at
  /\ last.queries # << >>
  /\ last.queries[1].id_cliente = Some(2)
  /\ SESSION_CTX[WaSession(Phone)].id_cliente = Some(2)

=============================================================================
